---------------------------- MODULE Spec2Model ----------------------------
(***************************************************************************)
(* A model of the e-ink image pipeline of anttir/eink-dither:              *)
(*   - the Lanczos front end's placement arithmetic (lib/download.ts),     *)
(*   - the error-diffusion ditherer (lib/dithering.ts),                    *)
(*   - the 24-bit BMP encoder (lib/download.ts),                           *)
(*   - the batch orchestration of the route component (routes/index.tsx).  *)
(*                                                                         *)
(* Arithmetic.  The code computes in IEEE doubles and stores into          *)
(* Uint8ClampedArray (round half to even, clamp to 0..255).  The model     *)
(* computes the same values as exact fractions numerator/denominator; for  *)
(* the inputs drawn here (strength and contrast multiples of 1/2, small    *)
(* image sizes) no double rounding error can move a value across a         *)
(* rounding boundary, so the stored bytes are the code's.  The CIE Lab     *)
(* transform uses transcendental functions; it is computed in fixed point  *)
(* (see rgbToLab).                                                         *)
(***************************************************************************)
EXTENDS Integers, Sequences, FiniteSets, TLC

(***************************************************************************)
(* Bounds of the model (not program constants).                            *)
(***************************************************************************)
\* largest image width / height given to the ditherer
MaxW == 3
MaxH == 3
\* largest width / height given to the BMP encoder
MaxBmpW == 4
MaxBmpH == 2
\* largest source and target side given to the resampler
MaxSrc == 4
MaxDst == 3
\* number of images in a batch
MaxImages == 3
\* largest image in which one pixel's diffusion targets are enumerated
MaxKernelW == 5
MaxKernelH == 3

(***************************************************************************)
(* Numeric helpers: the JavaScript number operations the code uses.        *)
(***************************************************************************)
Min(a, b) == IF a < b THEN a ELSE b
Max(a, b) == IF a > b THEN a ELSE b

\* Math.ceil(n / d) for d > 0
CeilDiv(n, d) == -((-n) \div d)

\* Math.round(n / d) for d > 0: floor(x + 0.5), ties toward plus infinity
MathRound(n, d) == (2 * n + d) \div (2 * d)

\* The conversion a Uint8ClampedArray applies on a store (ToUint8Clamp) to the
\* fraction n / d, d > 0: clamp to [0, 255], round to nearest, ties to even.
ToUint8Clamp(n, d) ==
    IF n <= 0 THEN 0
    ELSE IF n >= 255 * d THEN 255
    ELSE LET q == n \div d
             r2 == 2 * (n % d)
         IN  IF r2 < d THEN q
             ELSE IF r2 > d THEN q + 1
             ELSE IF q % 2 = 0 THEN q ELSE q + 1

\* floor(a * b / c) for a >= 0, b > 0, c > 0, without leaving 32 bits
\* as long as c * b does
MulDiv(a, b, c) == (a \div c) * b + ((a % c) * b) \div c

(***************************************************************************)
(* Palettes: COLOR_PALETTES, in the source's order.                        *)
(***************************************************************************)
COLOR_PALETTES ==
    "spectra-6" :>
        << <<0, 0, 0>>, <<255, 255, 255>>, <<255, 255, 0>>,
           <<255, 0, 0>>, <<41, 204, 20>>, <<0, 0, 255>> >> @@
    "spectra-6-ideal" :>
        << <<0, 0, 0>>, <<255, 255, 255>>, <<255, 255, 0>>,
           <<255, 0, 0>>, <<0, 255, 0>>, <<0, 0, 255>> >> @@
    "spectra-6-calibrated" :>
        << <<0, 0, 0>>, <<255, 255, 255>>, <<240, 224, 80>>,
           <<160, 32, 32>>, <<96, 128, 80>>, <<80, 128, 184>> >> @@
    "bw" :>
        << <<0, 0, 0>>, <<255, 255, 255>> >> @@
    "3-color" :>
        << <<0, 0, 0>>, <<255, 255, 255>>, <<255, 0, 0>> >> @@
    "4-gray" :>
        << <<0, 0, 0>>, <<85, 85, 85>>, <<170, 170, 170>>, <<255, 255, 255>> >>

PaletteKeys == DOMAIN COLOR_PALETTES

(***************************************************************************)
(* sRGB -> CIE Lab, in fixed point.                                        *)
(*                                                                         *)
(* SrgbLinear[v + 1] is the value of line 344-346,                         *)
(*   c > 0.04045 ? ((c + 0.055) / 1.055) ^ 2.4 : c / 12.92,  c = v / 255,  *)
(* for the 256 channel values v, in units of 1/10000.                      *)
(***************************************************************************)
SrgbLinear ==
 << 0, 3, 6, 9, 12, 15, 18, 21, 24, 27, 30, 33, 37, 40, 44, 48,
    52, 56, 60, 65, 70, 75, 80, 86, 91, 97, 103, 110, 116, 123, 130, 137,
    144, 152, 160, 168, 176, 185, 194, 203, 212, 222, 232, 242, 252, 262, 273, 284,
    296, 307, 319, 331, 343, 356, 369, 382, 395, 409, 423, 437, 452, 467, 482, 497,
    513, 529, 545, 561, 578, 595, 612, 630, 648, 666, 685, 704, 723, 742, 762, 782,
    802, 823, 844, 865, 887, 908, 931, 953, 976, 999, 1022, 1046, 1070, 1095, 1119, 1144,
    1170, 1195, 1221, 1248, 1274, 1301, 1329, 1356, 1384, 1413, 1441, 1470, 1500, 1529, 1559, 1590,
    1620, 1651, 1683, 1714, 1746, 1779, 1812, 1845, 1878, 1912, 1946, 1981, 2016, 2051, 2086, 2122,
    2159, 2195, 2232, 2270, 2307, 2346, 2384, 2423, 2462, 2502, 2542, 2582, 2623, 2664, 2705, 2747,
    2789, 2831, 2874, 2918, 2961, 3005, 3050, 3095, 3140, 3185, 3231, 3278, 3325, 3372, 3419, 3467,
    3515, 3564, 3613, 3663, 3712, 3763, 3813, 3864, 3916, 3968, 4020, 4072, 4125, 4179, 4233, 4287,
    4342, 4397, 4452, 4508, 4564, 4621, 4678, 4735, 4793, 4851, 4910, 4969, 5029, 5089, 5149, 5210,
    5271, 5333, 5395, 5457, 5520, 5583, 5647, 5711, 5776, 5841, 5906, 5972, 6038, 6105, 6172, 6240,
    6308, 6376, 6445, 6514, 6584, 6654, 6724, 6795, 6867, 6939, 7011, 7084, 7157, 7231, 7305, 7379,
    7454, 7529, 7605, 7682, 7758, 7835, 7913, 7991, 8070, 8148, 8228, 8308, 8388, 8469, 8550, 8632,
    8714, 8796, 8879, 8963, 9047, 9131, 9216, 9301, 9387, 9473, 9560, 9647, 9734, 9823, 9911, 10000 >>

\* floor of the cube root of t >= 0, by bisection on [lo, hi)
RECURSIVE CbrtSearch(_, _, _)
CbrtSearch(t, lo, hi) ==
    IF hi - lo <= 1 THEN lo
    ELSE LET mid == (lo + hi) \div 2
         IN  IF mid * mid * mid <= t THEN CbrtSearch(t, mid, hi)
                                     ELSE CbrtSearch(t, lo, mid)

\* Lines 361-363: t > 0.008856 ? Math.pow(t, 1/3) : 7.787 * t + 16/116,
\* for t in units of 1/1000000, the result in units of 1/1000.
LabF(t6) ==
    IF t6 > 8856 THEN CbrtSearch(t6 * 1000, 0, 1201)
                 ELSE MulDiv(t6, 7787, 1000000) + 138

\* rgbToLab: <<L, a, b>> in units of 1/100.
rgbToLab(r, g, b) ==
    LET rr == SrgbLinear[r + 1]
        gg == SrgbLinear[g + 1]
        bb == SrgbLinear[b + 1]
        \* x, y, z of lines 352-354, divided by 100, in units of 1/10^9
        x == rr * 41246 + gg * 35758 + bb * 18044
        y == rr * 21267 + gg * 71515 + bb * 7218
        z == rr * 1933 + gg * 11919 + bb * 95030
        \* lines 357-359, in units of 1/10^6
        xx == LabF(MulDiv(x, 100, 95047))
        yy == LabF(y \div 1000)
        zz == LabF(MulDiv(z, 100, 108883))
    IN  << (116 * yy - 16000) \div 10, (500 * (xx - yy)) \div 10, (200 * (yy - zz)) \div 10 >>

\* labDistance, squared (the square root of line 377 is monotone, so the
\* comparisons of findNearestColor are those of the squares)
labDistance(lab1, lab2) ==
    LET dL == lab1[1] - lab2[1]
        da == lab1[2] - lab2[2]
        db == lab1[3] - lab2[3]
    IN  dL * dL + da * da + db * db

\* computePaletteLab
computePaletteLab(palette) ==
    [i \in 1..Len(palette) |-> rgbToLab(palette[i][1], palette[i][2], palette[i][3])]


\* the initial value of minDistance in findNearestColor (Infinity: larger
\* than every distance)
Infinity == 2147483647

\* a loop that lets a later entry at the same distance replace the nearest
RECURSIVE NearestLoopLast(_, _, _, _, _)
NearestLoopLast(inputLab, paletteLab, i, minDistance, nearestIdx) ==
    IF i > Len(paletteLab) THEN nearestIdx
    ELSE LET distance == labDistance(inputLab, paletteLab[i])
         IN  IF distance <= minDistance
             THEN NearestLoopLast(inputLab, paletteLab, i + 1, distance, i)
             ELSE NearestLoopLast(inputLab, paletteLab, i + 1, minDistance, nearestIdx)

\* the loop of lines 396-402, from index i on
RECURSIVE NearestLoop(_, _, _, _, _)
NearestLoop(inputLab, paletteLab, i, minDistance, nearestIdx) ==
    IF i > Len(paletteLab) THEN nearestIdx
    ELSE LET distance == labDistance(inputLab, paletteLab[i])
         IN  IF distance < minDistance
             THEN NearestLoop(inputLab, paletteLab, i + 1, distance, i)
             ELSE NearestLoop(inputLab, paletteLab, i + 1, minDistance, nearestIdx)

\* a test of the input's blue sample alone, which white passes too
BlueInputAnyBlue(r, g, b) == b > 100

\* the condition of line 383 on the input colour
BlueInput(r, g, b) == r < 50 /\ g < 150 /\ b > 100

\* a test of the entry's blue sample alone, which white passes too
BlueEntryLoose(color) == color[3] > 200

\* the condition of line 386 on a palette entry
BlueEntry(color) == color[3] > 200 /\ color[1] < 50 /\ color[2] < 50

\* the index (from 1) of the palette entry findNearestColor returns: the
\* `color` of line 387 or palette[nearestIdx] of line 404
NearestEntry(r, g, b, palette, paletteLab) ==
    LET blues == {i \in 1..Len(palette) : BlueEntry(palette[i])}
    IN  IF BlueInput(r, g, b) /\ blues # {}
        THEN CHOOSE i \in blues : \A j \in blues : i <= j
        ELSE NearestLoop(rgbToLab(r, g, b), paletteLab, 1, Infinity, 1)

\* findNearestColor: the palette entry matched to (r, g, b)
findNearestColor(r, g, b, palette, paletteLab) ==
    palette[NearestEntry(r, g, b, palette, paletteLab)]

(***************************************************************************)
(* Pixel buffers.  A Uint8ClampedArray is a function from 0..length-1 to   *)
(* 0..255, four samples (R, G, B, A) per pixel, row-major.  Buffers live   *)
(* in a heap and are named by their index in it, so that two ImageData     *)
(* objects sharing one buffer can be told from two with equal contents.    *)
(***************************************************************************)
\* n / d rounded to an integer and kept whatever its size, as an accumulator
\* wider than a byte would
StoreUnclamped(n, d) == MathRound(n, d)

\* Math.min(255, Math.max(0, n / d)) stored into a Uint8ClampedArray
ClampStore(n, d) == ToUint8Clamp(Min(255 * d, Max(0, n)), d)

\* a pre-pass that runs the transform over the buffer a second time
applyContrastTwice(data, cn, cd) ==
    LET fnum == 259 * (255 * cn + 255 * cd)
        fden == 255 * (259 * cd - 255 * cn)
        Once(d) == [i \in DOMAIN d |->
                      IF i % 4 = 3 THEN d[i]
                      ELSE ClampStore(fnum * (d[i] - 128) + 128 * fden, fden)]
    IN  Once(Once(data))

\* the transform applied to the four samples of every pixel
applyContrastAllSamples(data, cn, cd) ==
    LET fnum == 259 * (255 * cn + 255 * cd)
        fden == 255 * (259 * cd - 255 * cn)
    IN  [i \in DOMAIN data |->
            ClampStore(fnum * (data[i] - 128) + 128 * fden, fden)]

\* applyContrast(data, contrast), the second argument being cn / cd (the
\* caller passes contrast - 1).  factor = 259 (255 c + 255) / (255 (259 - 255 c)).
applyContrast(data, cn, cd) ==
    LET fnum == 259 * (255 * cn + 255 * cd)
        fden == 255 * (259 * cd - 255 * cn)
    IN  [i \in DOMAIN data |->
            IF i % 4 = 3 THEN data[i]
            ELSE ClampStore(fnum * (data[i] - 128) + 128 * fden, fden)]

(***************************************************************************)
(* The four kernels: the (dx, dy, weight) the code diffuses to, in the     *)
(* order it does, and the divisor it divides by.                           *)
(***************************************************************************)
Algorithms == {"floyd-steinberg", "atkinson", "stucki", "jarvis"}

\* kernels whose first offset points back at the pixel just left
KernelOffsetsBackward(kernel) ==
    IF kernel = "atkinson"
    THEN << <<-1, 0, 1>>, <<2, 0, 1>>, <<-1, 1, 1>>, <<0, 1, 1>>, <<1, 1, 1>>,
            <<0, 2, 1>> >>
    ELSE << <<-1, 0, 7>>, <<-1, 1, 3>>, <<0, 1, 5>>, <<1, 1, 1>> >>

KernelOffsets(kernel) ==
    CASE kernel = "floyd-steinberg" ->
           << <<1, 0, 7>>, <<-1, 1, 3>>, <<0, 1, 5>>, <<1, 1, 1>> >>
      [] kernel = "atkinson" ->
           << <<1, 0, 1>>, <<2, 0, 1>>, <<-1, 1, 1>>, <<0, 1, 1>>, <<1, 1, 1>>,
              <<0, 2, 1>> >>
      [] kernel = "stucki" ->
           << <<1, 0, 8>>, <<2, 0, 4>>,
              <<-2, 1, 2>>, <<-1, 1, 4>>, <<0, 1, 8>>, <<1, 1, 4>>, <<2, 1, 2>>,
              <<-2, 2, 1>>, <<-1, 2, 2>>, <<0, 2, 4>>, <<1, 2, 2>>, <<2, 2, 1>> >>
      [] kernel = "jarvis" ->
           << <<1, 0, 7>>, <<2, 0, 5>>,
              <<-2, 1, 3>>, <<-1, 1, 5>>, <<0, 1, 7>>, <<1, 1, 5>>, <<2, 1, 3>>,
              <<-2, 2, 1>>, <<-1, 2, 3>>, <<0, 2, 5>>, <<1, 2, 3>>, <<2, 2, 1>> >>

\* every kernel dividing by Floyd-Steinberg's 16
KernelDivisorSixteen(kernel) == 16

KernelDivisor(kernel) ==
    CASE kernel = "floyd-steinberg" -> 16
      [] kernel = "atkinson" -> 8
      [] kernel = "stucki" -> 42
      [] kernel = "jarvis" -> 48

\* a guard that forgets the left edge (no nx >= 0, no x > 0): the neighbour
\* index then wraps to the end of the row above
InBoundsNoLeft(nx, ny, width, height) ==
    nx < width /\ ny >= 0 /\ ny < height

\* a guard that forgets the right edge (no nx < width, no x + 1 < width): the
\* neighbour index wraps to the first pixels of the next row
InBoundsNoRight(nx, ny, width, height) ==
    nx >= 0 /\ ny >= 0 /\ ny < height

\* the guard of one diffusion (lines 448, 454-455, 467, 516, 559, 617)
InBounds(nx, ny, width, height) ==
    nx >= 0 /\ nx < width /\ ny >= 0 /\ ny < height

\* the neighbours of (x, y) the kernel writes to, with their weights, in order
RECURSIVE AppliedOffsets(_, _, _, _, _)
AppliedOffsets(offs, x, y, width, height) ==
    IF offs = << >> THEN << >>
    ELSE LET o == Head(offs)
             rest == AppliedOffsets(Tail(offs), x, y, width, height)
         IN  IF InBounds(x + o[1], y + o[2], width, height)
             THEN << o >> \o rest ELSE rest

\* the diffusion at full strength whatever the strength asked for
DiffuseToFullStrength(data, i, err, weight, divisor, sn, sd) ==
    [j \in DOMAIN data |->
        IF j \in {i, i + 1, i + 2}
        THEN ClampStore(data[j] * divisor + err[j - i + 1] * weight, divisor)
        ELSE data[j]]

\* One diffusion write: data[i + c] = min(255, max(0, data[i + c] + err_c * weight / divisor))
\* for c = 0, 1, 2, where err_c = (old_c - new_c) * strength and strength = sn / sd.
DiffuseTo(data, i, err, weight, divisor, sn, sd) ==
    [j \in DOMAIN data |->
        IF j \in {i, i + 1, i + 2}
        THEN ClampStore(data[j] * (divisor * sd) + err[j - i + 1] * sn * weight,
                        divisor * sd)
        ELSE data[j]]

\* all the diffusions of one pixel, in order
RECURSIVE DiffuseAll(_, _, _, _, _, _, _, _, _)
DiffuseAll(data, applied, x, y, width, err, divisor, sn, sd) ==
    IF applied = << >> THEN data
    ELSE LET o == Head(applied)
             i == ((y + o[2]) * width + (x + o[1])) * 4
         IN  DiffuseAll(DiffuseTo(data, i, err, o[3], divisor, sn, sd),
                        Tail(applied), x, y, width, err, divisor, sn, sd)

\* The rest of the loop body once the colour is matched: write it
\* (data[idx] = newR, ...), then diffuse the error (old - new) * strength.
WriteAndDiffuse(data, x, y, width, height, kernel, old, new, sn, sd) ==
    LET idx == (y * width + x) * 4
    IN  DiffuseAll([data EXCEPT ![idx] = new[1], ![idx + 1] = new[2],
                                ![idx + 2] = new[3]],
                   AppliedOffsets(KernelOffsets(kernel), x, y, width, height),
                   x, y, width,
                   << old[1] - new[1], old[2] - new[2], old[3] - new[3] >>,
                   KernelDivisor(kernel), sn, sd)

\* The body of the kernels' double loop for the pixel (x, y): read the
\* pixel, match it, write the matched colour, diffuse the error.
QuantizePixel(data, x, y, width, height, kernel, palette, paletteLab, sn, sd) ==
    LET idx == (y * width + x) * 4
    IN  WriteAndDiffuse(data, x, y, width, height, kernel,
                        << data[idx], data[idx + 1], data[idx + 2] >>,
                        findNearestColor(data[idx], data[idx + 1], data[idx + 2],
                                         palette, paletteLab),
                        sn, sd)

\* the switch of applyDithering (lines 666-677)
KernelFor(algorithm) ==
    IF algorithm \in Algorithms THEN algorithm ELSE "floyd-steinberg"


\* no copy: the same buffer under the same id
AliasOf(h, id) == [heap |-> h, id |-> id]

\* new Uint8ClampedArray(source): a fresh buffer holding a copy of buffer id
CopyOf(h, id) == [heap |-> Append(h, h[id]), id |-> Len(h) + 1]

(***************************************************************************)
(* The BMP encoder, imageDataToBmp.                                        *)
(***************************************************************************)
\* byte k (0 = least significant) of the 32-bit two's complement of v, as
\* DataView.setUint32 / setInt32 / setUint16 write it with littleEndian = true
LeByte(v, k) ==
    (v \div (CASE k = 0 -> 1 [] k = 1 -> 256 [] k = 2 -> 65536 [] k = 3 -> 16777216)) % 256

\* a row size rounded down instead of up
RowSizeFloor(width) == ((width * 3) \div 4) * 4

\* line 14
RowSize(width) == CeilDiv(width * 3, 4) * 4
\* line 15
PixelDataSize(width, height) == RowSize(width) * height
\* line 16
FileSize(width, height) == 54 + PixelDataSize(width, height)

\* view.setUint8(offset, value) at a fixed offset of the header
SetUint8(buf, offset, value) == [buf EXCEPT ![offset] = value]

\* a little-endian field of n bytes at offset (setUint32, setInt32, setUint16)
RECURSIVE SetLe(_, _, _, _, _)
SetLe(buf, offset, v, n, k) ==
    IF k = n THEN buf
    ELSE SetLe(SetUint8(buf, offset + k, LeByte(v, k)), offset, v, n, k + 1)

\* lines 18-39: the zero-filled ArrayBuffer with the two headers written,
\* heightField being the value given to setInt32(22, ...)
BmpHeaderFields(width, height, heightField) ==
    LET b0 == [i \in 0..(FileSize(width, height) - 1) |-> 0]
        b1 == SetUint8(SetUint8(b0, 0, 66), 1, 77)
        b2 == SetLe(b1, 2, FileSize(width, height), 4, 0)
        b3 == SetLe(b2, 6, 0, 4, 0)
        b4 == SetLe(b3, 10, 54, 4, 0)
        b5 == SetLe(b4, 14, 40, 4, 0)
        b6 == SetLe(b5, 18, width, 4, 0)
        b7 == SetLe(b6, 22, heightField, 4, 0)
        b8 == SetLe(b7, 26, 1, 2, 0)
        b9 == SetLe(b8, 28, 24, 2, 0)
        b10 == SetLe(b9, 30, 0, 4, 0)
        b11 == SetLe(b10, 34, PixelDataSize(width, height), 4, 0)
        b12 == SetLe(b11, 38, 2835, 4, 0)
        b13 == SetLe(b12, 42, 2835, 4, 0)
        b14 == SetLe(b13, 46, 0, 4, 0)
    IN  SetLe(b14, 50, 0, 4, 0)

\* a header that declares the height without negating it (bottom-up rows)
BmpHeaderBottomUp(width, height) == BmpHeaderFields(width, height, height)

\* the header as the code writes it: line 31 negates the height
BmpHeader(width, height) == BmpHeaderFields(width, height, -height)

\* view.setUint8(offset++, value) of the pixel loop.  st is the encoder's
\* state [buf, offset, threw]; a write outside the ArrayBuffer throws a
\* RangeError, after which nothing more is written.
WriteNext(st, value) ==
    IF st.threw THEN st
    ELSE IF st.offset \notin DOMAIN st.buf THEN [st EXCEPT !.threw = TRUE]
    ELSE [st EXCEPT !.buf[st.offset] = value, !.offset = st.offset + 1]

\* the pixels of row y written in the buffer's own order R, G, B
RECURSIVE BmpPixelsRgb(_, _, _, _, _)
BmpPixelsRgb(st, data, width, y, x) ==
    IF x >= width THEN st
    ELSE LET srcIdx == (y * width + x) * 4
         IN  BmpPixelsRgb(WriteNext(WriteNext(WriteNext(st, data[srcIdx]),
                                              data[srcIdx + 1]),
                                    data[srcIdx + 2]),
                          data, width, y, x + 1)

\* lines 44-49 for the pixels x.. of row y: B, G, R
RECURSIVE BmpPixels(_, _, _, _, _)
BmpPixels(st, data, width, y, x) ==
    IF x >= width THEN st
    ELSE LET srcIdx == (y * width + x) * 4
         IN  BmpPixels(WriteNext(WriteNext(WriteNext(st, data[srcIdx + 2]),
                                           data[srcIdx + 1]),
                                 data[srcIdx]),
                       data, width, y, x + 1)

\* lines 51-54: padding zero bytes
RECURSIVE BmpPadding(_, _)
BmpPadding(st, padding) ==
    IF padding <= 0 THEN st
    ELSE BmpPadding(WriteNext(st, 0), padding - 1)

\* one iteration of the loop of line 43: row y
BmpRow(st, data, width, y) ==
    BmpPadding(BmpPixels(st, data, width, y, 0), RowSize(width) - width * 3)

\* the encoder's state at line 42
BmpStart(width, height) ==
    [buf |-> BmpHeader(width, height), offset |-> 54, threw |-> FALSE]

(***************************************************************************)
(* State.                                                                  *)
(***************************************************************************)
VARIABLES
    \* -- the ditherer and the pipeline around it
    heap,        \* the pixel buffers allocated so far
    imageData,   \* the caller's ImageData [data, width, height], data a buffer id
    algorithm,   \* applyDithering's arguments
    paletteKey,
    strength,    \* a fraction <<numerator, denominator>>
    contrast,    \* a fraction <<numerator, denominator>>
    dpc,         \* where the call is: idle, pass, returned, encoding, encoded, threw
    processed,   \* applyDithering's copy, after the contrast pre-pass (an id)
    work,        \* the kernel's private buffer (an id), 0 before the call
    paletteLab,  \* the kernel's precomputed Lab values of the palette
    px,          \* the pixels the kernel's loop has visited
    result,      \* the ImageData applyDithering returned
    encoded,     \* the encoder's final state for result
    run,         \* 1 for the first run over imageData, 2 for the repeat
    firstRun,    \* the encoder's final state of the first run
    \* -- the encoder alone
    bmpIn,       \* the ImageData given to imageDataToBmp [width, height, data]
    bmp,         \* the encoder's state [buf, offset, threw]
    bmpY,        \* the rows written
    bmpPc,       \* idle, rows, done, threw
    \* -- one pixel's diffusion targets
    kcall,       \* [kernel, width, height, x, y]
    applied,     \* the (dx, dy, weight) the kernel wrote for that pixel
    kpc,         \* start, applied
    \* -- the resampler
    sc,          \* the call: [fn, image, sourceWidth, sourceHeight,
                 \*            targetWidth, targetHeight, backgroundColor,
                 \*            cropMode, cropOffset]
    spc,         \* call, resample, compose, returned, threw
    scaled,      \* [width, height, x, y]: the scaled size and its position
    resampledBy, \* none, lanczos, browser: the scaling work done so far
    scResult,    \* the ImageData returned [width, height], or the exception
    scaledImageData, \* the samples of the scaled image: <<x, y>> -> sample
    returnedData,    \* the samples of the ImageData returned
    \* -- a kernel's loop, write by write
    wcall,       \* the call: [kernel, data, width, height, paletteKey,
                 \*            paletteLab, strength]
    wdata,       \* the kernel's buffer
    wpx,         \* the pixels visited
    werr,        \* <<oldR - newR, oldG - newG, oldB - newB>> of the pixel
    wtodo,       \* the pixel's neighbour writes still to do: <<dx, dy, weight>>
    wpc,         \* match, diffuse, returned
    \* -- openPhotoPicker
    interval,    \* the polling interval: set, cleared
    ticks,       \* per tick fired, where its callback stands: poll, list,
                 \* delete, deleteOnTimeout (awaiting that request), done
    promise,     \* the promise returned: pending, resolved, rejected
    mediaItemsSet, \* the session's flag at the server
    expired,     \* Date.now() - startTime > timeoutMs
    listCalls,   \* the callbacks that started fetching the media items
    deleteCalls, \* the calls of deletePickerSession
    pollAfterSettled, \* a poll was issued after the promise had settled
    \* -- lanczosResample alone
    lcall,       \* the call: [srcWidth, srcHeight, destWidth, destHeight]
    xWeights,    \* per destX, the normalized weights (units of 1/10000)
    xIndices,    \* per destX, the source columns weighted
    yWeights,
    yIndices,
    destPx,      \* the destination pixels resampled so far
    reads,       \* the source pixels <<srcX, srcY>> read for the last one
    weightTotal, \* the sum of xWeight * yWeight applied to the last one
    lpc,         \* xweights, yweights, resample, returned
    \* -- findNearestColor alone
    ncall,       \* the call: [r, g, b, palette, paletteLab]
    nret,        \* the index in palette of the entry returned, 0 before
    npc,         \* call, returned
    \* -- the batch of the route component
    images,      \* the images state: id -> ProcessedImage
    isProcessingAll,
    queue,       \* imagesToProcess of the running handleProcessAll (ids)
    cur,         \* the index in queue of the image being processed
    bpc,         \* idle, load, dither, toBlob, toDataUrl
    zipped,      \* the ids last given to downloadAllAsZip
    succeeded,   \* the ids whose processing completed without an exception
    pipe         \* the stages of the image in processImage: what the resampler
                 \* call gave back, how the dithering call ended, whether the
                 \* encoding was started

ditherVars == << heap, imageData, algorithm, paletteKey, strength, contrast, dpc,
                 processed, work, paletteLab, px, result, encoded, run, firstRun >>
bmpVars == << bmpIn, bmp, bmpY, bmpPc >>
kernelVars == << kcall, applied, kpc >>
scaleVars ==
    << sc, spc, scaled, resampledBy, scResult, scaledImageData, returnedData >>
batchVars == << images, isProcessingAll, queue, cur, bpc, zipped, succeeded, pipe >>
writeVars == << wcall, wdata, wpx, werr, wtodo, wpc >>
nearestVars == << ncall, nret, npc >>
lanczosVars ==
    << lcall, xWeights, xIndices, yWeights, yIndices, destPx, reads,
       weightTotal, lpc >>
pickerVars ==
    << interval, ticks, promise, mediaItemsSet, expired, listCalls,
       deleteCalls, pollAfterSettled >>
vars ==
    << ditherVars, bmpVars, kernelVars, scaleVars, batchVars, writeVars,
       nearestVars, lanczosVars, pickerVars >>
notDither ==
    << bmpVars, kernelVars, scaleVars, batchVars, writeVars, nearestVars,
       lanczosVars, pickerVars >>
notBmp ==
    << ditherVars, kernelVars, scaleVars, batchVars, writeVars, nearestVars,
       lanczosVars, pickerVars >>
notKernel ==
    << ditherVars, bmpVars, scaleVars, batchVars, writeVars, nearestVars,
       lanczosVars, pickerVars >>
notScale ==
    << ditherVars, bmpVars, kernelVars, batchVars, writeVars, nearestVars,
       lanczosVars, pickerVars >>
notBatch ==
    << ditherVars, bmpVars, kernelVars, scaleVars, writeVars, nearestVars,
       lanczosVars, pickerVars >>
notWrite ==
    << ditherVars, bmpVars, kernelVars, scaleVars, batchVars, nearestVars,
       lanczosVars, pickerVars >>
notNearest ==
    << ditherVars, bmpVars, kernelVars, scaleVars, batchVars, writeVars,
       lanczosVars, pickerVars >>
notLanczos ==
    << ditherVars, bmpVars, kernelVars, scaleVars, batchVars, writeVars,
       nearestVars, pickerVars >>
notPicker ==
    << ditherVars, bmpVars, kernelVars, scaleVars, batchVars, writeVars,
       nearestVars, lanczosVars >>

\* the value of a variable that holds nothing yet
None == [none |-> TRUE]

DitherIdle ==
    /\ heap = << >> /\ imageData = None /\ algorithm = "" /\ paletteKey = ""
    /\ strength = <<1, 1>> /\ contrast = <<1, 1>> /\ dpc = "off" /\ work = 0
    /\ processed = 0
    /\ paletteLab = << >>
    /\ px = 0 /\ result = None /\ encoded = None /\ run = 0 /\ firstRun = None

BmpIdle ==
    /\ bmpIn = None /\ bmp = None /\ bmpY = 0 /\ bmpPc = "off"

KernelIdle ==
    /\ kcall = None /\ applied = << >> /\ kpc = "off"

ScaleIdle ==
    /\ sc = None /\ spc = "off" /\ scaled = None /\ resampledBy = "none"
    /\ scResult = None /\ scaledImageData = None /\ returnedData = None

BatchIdle ==
    /\ images = << >> /\ isProcessingAll = FALSE /\ queue = << >> /\ cur = 0
    /\ bpc = "off" /\ zipped = {} /\ succeeded = {}
    /\ pipe = None

PickerIdle ==
    /\ interval = "off" /\ ticks = << >> /\ promise = "off"
    /\ mediaItemsSet = FALSE /\ expired = FALSE
    /\ listCalls = 0 /\ deleteCalls = 0 /\ pollAfterSettled = FALSE

LanczosIdle ==
    /\ lcall = None /\ xWeights = << >> /\ xIndices = << >>
    /\ yWeights = << >> /\ yIndices = << >> /\ destPx = 0 /\ reads = {}
    /\ weightTotal = 0 /\ lpc = "off"

NearestIdle ==
    /\ ncall = None /\ nret = 0 /\ npc = "off"

WriteIdle ==
    /\ wcall = None /\ wdata = << >> /\ wpx = 0 /\ werr = <<0, 0, 0>>
    /\ wtodo = << >> /\ wpc = "off"

(***************************************************************************)
(* The encoder alone, row by row, on arbitrary buffers.                    *)
(***************************************************************************)
\* input pixels (R, G, B, A): opaque pure red, and a colour whose four
\* samples all differ
BmpColors == << <<255, 0, 0, 255>>, <<10, 20, 30, 40>> >>

\* the w x h images over BmpColors
BmpImages(w, h) ==
    { [width |-> w, height |-> h,
       data |-> [i \in 0..(w * h * 4 - 1) |-> BmpColors[f[i \div 4]][(i % 4) + 1]]] :
      f \in [0..(w * h - 1) -> 1..Len(BmpColors)] }

InitBmp ==
    /\ PickerIdle
    /\ DitherIdle /\ KernelIdle /\ ScaleIdle /\ BatchIdle /\ WriteIdle
    /\ NearestIdle /\ LanczosIdle
    /\ \E w \in 1..MaxBmpW, h \in 1..MaxBmpH : bmpIn \in BmpImages(w, h)
    /\ bmp = None /\ bmpY = 0 /\ bmpPc = "idle"

\* lines 11-42: sizes, allocation, headers, offset = 54
BmpBegin ==
    /\ bmpPc = "idle"
    /\ bmp' = BmpStart(bmpIn.width, bmpIn.height)
    /\ bmpY' = 0
    /\ bmpPc' = "rows"
    /\ UNCHANGED << bmpIn, notBmp >>

\* one iteration of the loop of line 43; a RangeError ends the call
BmpWriteRow ==
    /\ bmpPc = "rows"
    /\ bmpY < bmpIn.height
    /\ bmp' = BmpRow(bmp, bmpIn.data, bmpIn.width, bmpY)
    /\ bmpY' = bmpY + 1
    /\ bmpPc' = IF bmp'.threw THEN "threw" ELSE "rows"
    /\ UNCHANGED << bmpIn, notBmp >>

\* line 57: return new Blob([buffer])
BmpFinish ==
    /\ bmpPc = "rows"
    /\ bmpY = bmpIn.height
    /\ bmpPc' = "done"
    /\ UNCHANGED << bmpIn, bmp, bmpY, notBmp >>

NextBmp == BmpBegin \/ BmpWriteRow \/ BmpFinish

SpecBmp == InitBmp /\ [][NextBmp]_vars

(***************************************************************************)
(* The ditherer: applyDithering and the four kernels, pixel by pixel, then *)
(* imageDataToBmp on what it returned; the whole run repeated once on the  *)
(* same ImageData with the same arguments.                                 *)
(***************************************************************************)
\* input pixels (R, G, B, A): mid grey, a blue that meets line 383, an
\* orange, a dark green, with differing alpha
InputColors ==
    << <<128, 128, 128, 255>>, <<30, 100, 200, 100>>,
       <<200, 120, 40, 255>>, <<20, 60, 10, 0>> >>

\* the w x h image whose pixel p has colour seed + p * stride (mod the colours)
GenImage(w, h, seed, stride) ==
    [i \in 0..(w * h * 4 - 1) |->
        InputColors[((seed + (i \div 4) * stride) % Len(InputColors)) + 1][(i % 4) + 1]]

\* the w x h image whose pixel p has the colour seed + p (mod the entries) of
\* a palette, with the alpha of the input pixels above
PaletteImage(w, h, seed, palette) ==
    [i \in 0..(w * h * 4 - 1) |->
        IF i % 4 = 3
        THEN InputColors[((seed + (i \div 4)) % Len(InputColors)) + 1][4]
        ELSE palette[((seed + (i \div 4)) % Len(palette)) + 1][(i % 4) + 1]]

Strengths == { <<0, 1>>, <<1, 1>>, <<3, 2>> }
Contrasts == { <<1, 2>>, <<1, 1>>, <<3, 2>> }
\* selectors outside the supported ones: an algorithm of the settings type of
\* an earlier version, a palette key that is not in COLOR_PALETTES
Selectors == Algorithms \cup {"blue-noise"}
Keys == PaletteKeys \cup {"16-gray"}

InitDither ==
    /\ PickerIdle
    /\ algorithm \in Selectors
    /\ paletteKey \in Keys
    /\ strength \in Strengths
    /\ contrast \in Contrasts
    /\ \E w \in 1..MaxW, h \in 1..MaxH, seed \in 0..(Len(InputColors) - 1), stride \in {1} :
          /\ \/ heap = << GenImage(w, h, seed, stride) >>
             \/ /\ paletteKey \in PaletteKeys
                /\ contrast = <<1, 1>>
                /\ heap = << PaletteImage(w, h, seed, COLOR_PALETTES[paletteKey]) >>
          /\ imageData = [data |-> 1, width |-> w, height |-> h]
    /\ dpc = "idle" /\ processed = 0 /\ work = 0 /\ paletteLab = << >> /\ px = 0
    /\ result = None /\ encoded = None
    /\ run = 1 /\ firstRun = None
    /\ BmpIdle /\ KernelIdle /\ ScaleIdle /\ BatchIdle /\ WriteIdle
    /\ NearestIdle /\ LanczosIdle

\* applyDithering up to the first iteration of the kernel's loop: the palette
\* lookup (a TypeError for a key that is not in the table), the copy, the
\* contrast pre-pass, the switch, and the kernel's own copy
ApplyDitheringCall ==
    /\ dpc = "idle"
    /\ IF paletteKey \notin DOMAIN COLOR_PALETTES
       THEN /\ dpc' = "threw"
            /\ UNCHANGED << heap, processed, work, paletteLab, px >>
       ELSE LET c1 == CopyOf(heap, imageData.data)
                pre == IF contrast[1] # contrast[2]
                       THEN [c1.heap EXCEPT ![c1.id] =
                               applyContrast(@, contrast[1] - contrast[2], contrast[2])]
                       ELSE c1.heap
                c2 == CopyOf(pre, c1.id)
            IN  /\ heap' = c2.heap
                /\ processed' = c1.id
                /\ work' = c2.id
                /\ paletteLab' = computePaletteLab(COLOR_PALETTES[paletteKey])
                /\ px' = 0
                /\ dpc' = "pass"
    /\ UNCHANGED << imageData, algorithm, paletteKey, strength, contrast, result,
                    encoded, run, firstRun, notDither >>

\* one iteration of the kernel's loop over (x, y)
DitherPixel ==
    /\ dpc = "pass"
    /\ px < imageData.width * imageData.height
    /\ heap' = [heap EXCEPT ![work] =
                  QuantizePixel(@, px % imageData.width, px \div imageData.width,
                                imageData.width, imageData.height,
                                KernelFor(algorithm), COLOR_PALETTES[paletteKey],
                                paletteLab,
                                strength[1], strength[2])]
    /\ px' = px + 1
    /\ UNCHANGED << imageData, algorithm, paletteKey, strength, contrast, dpc,
                    processed, work, paletteLab, result, encoded, run, firstRun, notDither >>

\* return new ImageData(data, width, height)
KernelReturn ==
    /\ dpc = "pass"
    /\ px = imageData.width * imageData.height
    /\ result' = [data |-> work, width |-> imageData.width, height |-> imageData.height]
    /\ dpc' = "returned"
    /\ UNCHANGED << heap, imageData, algorithm, paletteKey, strength, contrast,
                    processed, work, paletteLab, px, encoded, run, firstRun, notDither >>

\* the pipeline hands the dithered ImageData to imageDataToBmp
EncodeResult ==
    /\ dpc = "returned"
    /\ bmpIn' = [width |-> result.width, height |-> result.height,
                 data |-> heap[result.data]]
    /\ bmp' = None /\ bmpY' = 0 /\ bmpPc' = "idle"
    /\ dpc' = "encoding"
    /\ UNCHANGED << heap, imageData, algorithm, paletteKey, strength, contrast,
                    processed, work, paletteLab, px, result, encoded, run, firstRun,
                    kernelVars, scaleVars, batchVars, writeVars, nearestVars,
                    lanczosVars, pickerVars >>

\* imageDataToBmp has returned (or thrown): the pipeline keeps what it wrote
EncodeReturn ==
    /\ dpc = "encoding"
    /\ bmpPc \in {"done", "threw"}
    /\ encoded' = bmp
    /\ dpc' = "encoded"
    /\ bmpIn' = None /\ bmp' = None /\ bmpY' = 0 /\ bmpPc' = "off"
    /\ UNCHANGED << heap, imageData, algorithm, paletteKey, strength, contrast,
                    processed, work, paletteLab, px, result, run, firstRun,
                    kernelVars, scaleVars, batchVars, writeVars, nearestVars,
                    lanczosVars, pickerVars >>

\* the caller runs the pipeline again on the same ImageData
RunAgain ==
    /\ dpc = "encoded"
    /\ run = 1
    /\ run' = 2
    /\ firstRun' = encoded
    /\ dpc' = "idle"
    /\ processed' = 0 /\ work' = 0 /\ paletteLab' = << >> /\ px' = 0 /\ result' = None /\ encoded' = None
    /\ UNCHANGED << heap, imageData, algorithm, paletteKey, strength, contrast, notDither >>

NextDither ==
    \/ ApplyDitheringCall
    \/ DitherPixel
    \/ KernelReturn
    \/ EncodeResult
    \/ BmpBegin
    \/ BmpWriteRow
    \/ BmpFinish
    \/ EncodeReturn
    \/ RunAgain

SpecDither == InitDither /\ [][NextDither]_vars



(***************************************************************************)
(* One pixel's diffusion: the neighbours a kernel writes to for the pixel  *)
(* (x, y) of a width x height image.                                       *)
(***************************************************************************)
InitKernel ==
    /\ PickerIdle
    /\ DitherIdle /\ BmpIdle /\ ScaleIdle /\ BatchIdle /\ WriteIdle
    /\ NearestIdle /\ LanczosIdle
    /\ \E k \in Algorithms, w \in 1..MaxKernelW, h \in 1..MaxKernelH :
          \E x \in 0..(w - 1), y \in 0..(h - 1) :
             kcall = [kernel |-> k, width |-> w, height |-> h, x |-> x, y |-> y]
    /\ applied = << >>
    /\ kpc = "start"

\* the guarded neighbour updates of one iteration of a kernel's loop
KernelDiffuse ==
    /\ kpc = "start"
    /\ applied' = AppliedOffsets(KernelOffsets(kcall.kernel), kcall.x, kcall.y,
                                 kcall.width, kcall.height)
    /\ kpc' = "applied"
    /\ UNCHANGED << kcall, notKernel >>

NextKernel == KernelDiffuse

SpecKernel == InitKernel /\ [][NextKernel]_vars

(***************************************************************************)
(* lanczosResample alone: the weights and indices precomputed per          *)
(* destination column and row, then the source pixels read and the weight  *)
(* applied per destination pixel.  Coordinates are exact fractions:        *)
(* srcX = (destX + 0.5) * (srcWidth / destWidth) - 0.5                     *)
(*      = ((2 destX + 1) srcWidth - destWidth) / (2 destWidth).            *)
(* Kernel values and weights are in units of 1/10000.                      *)
(***************************************************************************)
MaxLanczosSrc == 6
MaxLanczosDst == 3

\* lanczosKernel(k / 24, 3) for k = 0..71, the arguments in [0, 3)
LanczosTable ==
 <<
    10000, 9968, 9874, 9717, 9501, 9228, 8901, 8524, 8103, 7642, 7147, 6624,
    6079, 5519, 4949, 4376, 3807, 3247, 2702, 2177, 1677, 1205, 767, 364,
    0, -324, -608, -849, -1049, -1209, -1329, -1411, -1458, -1473, -1457, -1416,
    -1351, -1267, -1167, -1054, -933, -807, -678, -550, -425, -306, -194, -92,
    0, 80, 148, 204, 248, 280, 300, 310, 311, 303, 288, 268,
    243, 215, 186, 156, 127, 99, 74, 51, 33, 18, 8, 2 >>

\* lanczosKernel(x, 3) for x = n / den, den a divisor of 24
lanczosKernel(n, den) ==
    IF n = 0 THEN 10000
    ELSE IF n <= -3 * den \/ n >= 3 * den THEN 0
    ELSE LanczosTable[((IF n < 0 THEN -n ELSE n) * 24) \div den + 1]

\* Math.floor(srcX) for the destination index d of an axis
FloorSrc(srcSize, dstSize, d) ==
    ((2 * d + 1) * srcSize - dstSize) \div (2 * dstSize)

\* a window whose first index is not clipped at 0
WindowStartUnclipped(srcSize, dstSize, d) ==
    FloorSrc(srcSize, dstSize, d) - 3 + 1

\* startX = Math.max(0, Math.floor(srcX) - a + 1)
WindowStart(srcSize, dstSize, d) ==
    Max(0, FloorSrc(srcSize, dstSize, d) - 3 + 1)

\* a window that ends at floor + a - 1
WindowEndShort(srcSize, dstSize, d) ==
    Min(srcSize - 1, FloorSrc(srcSize, dstSize, d) + 3 - 1)

\* endX = Math.min(srcWidth - 1, Math.floor(srcX) + a)
WindowEnd(srcSize, dstSize, d) ==
    Min(srcSize - 1, FloorSrc(srcSize, dstSize, d) + 3)

\* the indices pushed by the loop x = startX .. endX, in order
AxisIndices(srcSize, dstSize, d) ==
    LET start == WindowStart(srcSize, dstSize, d)
        end == WindowEnd(srcSize, dstSize, d)
    IN  [i \in 1..(end - start + 1) |-> start + i - 1]

\* the weights pushed by the loop: lanczosKernel(x - srcX, a)
RawWeights(srcSize, dstSize, d) ==
    LET indices == AxisIndices(srcSize, dstSize, d)
    IN  [i \in DOMAIN indices |->
           lanczosKernel(indices[i] * 2 * dstSize
                           - ((2 * d + 1) * srcSize - dstSize),
                         2 * dstSize)]

RECURSIVE SumOf(_)
SumOf(weights) ==
    IF weights = << >> THEN 0 ELSE Head(weights) + SumOf(Tail(weights))

\* weights left as the kernel gave them
NormalizeNone(weights, weightSum) == weights

\* weights[i] /= weightSum.  A division by a zero sum gives an infinity or
\* NaN, for which the model keeps Infinity.
Normalize(weights, weightSum) ==
    [i \in DOMAIN weights |->
        IF weightSum = 0 THEN Infinity
        ELSE MathRound(weights[i] * 10000, weightSum)]

\* the normalized weights of the destination index d of an axis
AxisWeights(srcSize, dstSize, d) ==
    LET weights == RawWeights(srcSize, dstSize, d)
    IN  Normalize(weights, SumOf(weights))

InitLanczos ==
    /\ PickerIdle
    /\ DitherIdle /\ BmpIdle /\ KernelIdle /\ ScaleIdle /\ BatchIdle /\ WriteIdle
    /\ NearestIdle
    /\ \E sw \in 1..MaxLanczosSrc, sh \in 1..MaxLanczosSrc,
          dw \in 1..MaxLanczosDst, dh \in 1..MaxLanczosDst :
          lcall = [srcWidth |-> sw, srcHeight |-> sh,
                   destWidth |-> dw, destHeight |-> dh]
    /\ xWeights = << >> /\ xIndices = << >>
    /\ yWeights = << >> /\ yIndices = << >>
    /\ destPx = 0 /\ reads = {} /\ weightTotal = 0
    /\ lpc = "xweights"

\* one iteration of the loop of lines 245-268, destX = Len(xWeights)
WeightsX ==
    /\ lpc = "xweights"
    /\ Len(xWeights) < lcall.destWidth
    /\ xWeights' = Append(xWeights,
                          AxisWeights(lcall.srcWidth, lcall.destWidth, Len(xWeights)))
    /\ xIndices' = Append(xIndices,
                          AxisIndices(lcall.srcWidth, lcall.destWidth, Len(xWeights)))
    /\ UNCHANGED << lcall, yWeights, yIndices, destPx, reads, weightTotal, lpc,
                    notLanczos >>

\* the loop of lines 245-268 ends
WeightsXDone ==
    /\ lpc = "xweights"
    /\ Len(xWeights) = lcall.destWidth
    /\ lpc' = "yweights"
    /\ UNCHANGED << lcall, xWeights, xIndices, yWeights, yIndices, destPx, reads,
                    weightTotal, notLanczos >>

\* one iteration of the loop of lines 273-296, destY = Len(yWeights)
WeightsY ==
    /\ lpc = "yweights"
    /\ Len(yWeights) < lcall.destHeight
    /\ yWeights' = Append(yWeights,
                          AxisWeights(lcall.srcHeight, lcall.destHeight, Len(yWeights)))
    /\ yIndices' = Append(yIndices,
                          AxisIndices(lcall.srcHeight, lcall.destHeight, Len(yWeights)))
    /\ UNCHANGED << lcall, xWeights, xIndices, destPx, reads, weightTotal, lpc,
                    notLanczos >>

\* the loop of lines 273-296 ends
WeightsYDone ==
    /\ lpc = "yweights"
    /\ Len(yWeights) = lcall.destHeight
    /\ lpc' = "resample"
    /\ UNCHANGED << lcall, xWeights, xIndices, yWeights, yIndices, destPx, reads,
                    weightTotal, notLanczos >>

\* the body of the loops of lines 299-332 for one destination pixel: the
\* source pixels read and the sum of the weights xWeight * yWeight applied
\* (units of 1/10^8)
ResamplePixel ==
    /\ lpc = "resample"
    /\ destPx < lcall.destWidth * lcall.destHeight
    /\ LET destX == destPx % lcall.destWidth
           destY == destPx \div lcall.destWidth
           xW == xWeights[destX + 1]
           xI == xIndices[destX + 1]
           yW == yWeights[destY + 1]
           yI == yIndices[destY + 1]
       IN  /\ reads' = { << xI[i], yI[j] >> : i \in DOMAIN xI, j \in DOMAIN yI }
           /\ weightTotal' =
                 IF \E i \in DOMAIN xW : xW[i] = Infinity THEN Infinity
                 ELSE IF \E j \in DOMAIN yW : yW[j] = Infinity THEN Infinity
                 ELSE SumOf([j \in DOMAIN yW |->
                               SumOf([i \in DOMAIN xW |-> xW[i] * yW[j]])])
    /\ destPx' = destPx + 1
    /\ UNCHANGED << lcall, xWeights, xIndices, yWeights, yIndices, lpc,
                    notLanczos >>

\* line 334
LanczosReturn ==
    /\ lpc = "resample"
    /\ destPx = lcall.destWidth * lcall.destHeight
    /\ lpc' = "returned"
    /\ UNCHANGED << lcall, xWeights, xIndices, yWeights, yIndices, destPx, reads,
                    weightTotal, notLanczos >>

NextLanczos ==
    \/ WeightsX
    \/ WeightsXDone
    \/ WeightsY
    \/ WeightsYDone
    \/ ResamplePixel
    \/ LanczosReturn

SpecLanczos == InitLanczos /\ [][NextLanczos]_vars

(***************************************************************************)
(* openPhotoPicker from the moment setInterval has registered the poll     *)
(* callback.  The callback is an async function: a tick runs it up to its  *)
(* first await and returns, and the rest of it runs when the awaited       *)
(* request settles, while the interval goes on firing until it is cleared. *)
(* ticks[t] is where the callback started by the t-th tick stands.         *)
(***************************************************************************)
\* the interval firings followed
MaxTicks == 3

InitPicker ==
    /\ DitherIdle /\ BmpIdle /\ KernelIdle /\ ScaleIdle /\ BatchIdle /\ WriteIdle
    /\ NearestIdle /\ LanczosIdle
    /\ interval = "set" /\ ticks = << >> /\ promise = "pending"
    /\ mediaItemsSet = FALSE /\ expired = FALSE
    /\ listCalls = 0 /\ deleteCalls = 0 /\ pollAfterSettled = FALSE

\* the user completes the selection in the picker window
UserSelects ==
    /\ interval # "off"
    /\ ~mediaItemsSet
    /\ mediaItemsSet' = TRUE
    /\ UNCHANGED << interval, ticks, promise, expired, listCalls, deleteCalls,
                    pollAfterSettled, notPicker >>

\* Date.now() - startTime passes timeoutMs
TimePasses ==
    /\ interval # "off"
    /\ ~expired
    /\ expired' = TRUE
    /\ UNCHANGED << interval, ticks, promise, mediaItemsSet, listCalls,
                    deleteCalls, pollAfterSettled, notPicker >>

\* the interval fires: the callback runs to its first await, which is that
\* of deletePickerSession after a timeout (lines 746-750) and that of
\* pollPickerSession otherwise (line 757)
Tick ==
    /\ interval = "set"
    /\ Len(ticks) < MaxTicks
    /\ IF expired
       THEN /\ interval' = "cleared"
            /\ ticks' = Append(ticks, "deleteOnTimeout")
            /\ deleteCalls' = deleteCalls + 1
            /\ UNCHANGED pollAfterSettled
       ELSE /\ ticks' = Append(ticks, "poll")
            /\ pollAfterSettled' = (pollAfterSettled \/ promise # "pending")
            /\ UNCHANGED << interval, deleteCalls >>
    /\ UNCHANGED << promise, mediaItemsSet, expired, listCalls, notPicker >>

\* the catch block of lines 785-790, for the callback of tick t; a settled
\* promise ignores reject
Catch(t) ==
    /\ interval' = "cleared"
    /\ promise' = IF promise = "pending" THEN "rejected" ELSE promise
    /\ ticks' = [ticks EXCEPT ![t] = "done"]
    /\ UNCHANGED << mediaItemsSet, expired, listCalls, deleteCalls,
                    pollAfterSettled, notPicker >>

\* pollPickerSession settles for the callback of tick t (lines 757-765)
PollSettles ==
    \E t \in DOMAIN ticks, ok \in BOOLEAN :
       /\ ticks[t] = "poll"
       /\ IF ~ok THEN Catch(t)
          ELSE IF mediaItemsSet
          THEN /\ interval' = "cleared"
               /\ listCalls' = listCalls + 1
               /\ ticks' = [ticks EXCEPT ![t] = "list"]
               /\ UNCHANGED << promise, mediaItemsSet, expired, deleteCalls,
                               pollAfterSettled, notPicker >>
          ELSE /\ ticks' = [ticks EXCEPT ![t] = "done"]
               /\ UNCHANGED << interval, promise, mediaItemsSet, expired,
                               listCalls, deleteCalls, pollAfterSettled,
                               notPicker >>

\* the pages of listPickerMediaItems are in for the callback of tick t, or
\* one of the requests failed (lines 765-780)
ListSettles ==
    \E t \in DOMAIN ticks, ok \in BOOLEAN :
       /\ ticks[t] = "list"
       /\ IF ~ok THEN Catch(t)
          ELSE /\ deleteCalls' = deleteCalls + 1
               /\ ticks' = [ticks EXCEPT ![t] = "delete"]
               /\ UNCHANGED << interval, promise, mediaItemsSet, expired,
                               listCalls, pollAfterSettled, notPicker >>

\* deletePickerSession settles for the callback of tick t: resolve(allItems)
\* after the items (lines 780-783), reject after a timeout (lines 750-752)
DeleteSettles ==
    \E t \in DOMAIN ticks, ok \in BOOLEAN :
       /\ ticks[t] \in {"delete", "deleteOnTimeout"}
       /\ IF ~ok THEN Catch(t)
          ELSE /\ promise' = IF promise # "pending" THEN promise
                             ELSE IF ticks[t] = "delete" THEN "resolved"
                             ELSE "rejected"
               /\ ticks' = [ticks EXCEPT ![t] = "done"]
               /\ UNCHANGED << interval, mediaItemsSet, expired, listCalls,
                               deleteCalls, pollAfterSettled, notPicker >>

NextPicker ==
    \/ UserSelects
    \/ TimePasses
    \/ Tick
    \/ PollSettles
    \/ ListSettles
    \/ DeleteSettles

SpecPicker == InitPicker /\ [][NextPicker]_vars

(***************************************************************************)
(* findNearestColor alone, on colours and palettes drawn from small sets:  *)
(* the palettes of COLOR_PALETTES and palettes in which entries repeat, so *)
(* that several entries are at the same distance.  The entry returned is   *)
(* known by its index: the function returns the array palette[nearestIdx]  *)
(* itself.                                                                 *)
(***************************************************************************)
\* the channel values drawn
Channels == {0, 40, 128, 220, 255}

\* palettes with entries at equal distance: repeated entries, in an order
\* that puts the nearest first, in the middle or last
TiePalettes ==
    { << <<255, 255, 255>>, <<0, 0, 0>>, <<255, 255, 255>>, <<0, 0, 0>> >>,
      << <<0, 0, 255>>, <<255, 0, 0>>, <<255, 0, 0>>, <<0, 0, 0>> >>,
      << <<0, 0, 0>>, <<128, 128, 128>>, <<128, 128, 128>> >> }

InitNearest ==
    /\ PickerIdle
    /\ DitherIdle /\ BmpIdle /\ KernelIdle /\ ScaleIdle /\ BatchIdle /\ WriteIdle
    /\ LanczosIdle
    /\ \E r \in Channels, g \in Channels, b \in Channels,
          palette \in {COLOR_PALETTES[k] : k \in PaletteKeys} \cup TiePalettes :
          ncall = [r |-> r, g |-> g, b |-> b, palette |-> palette,
                   paletteLab |-> computePaletteLab(palette)]
    /\ nret = 0
    /\ npc = "call"

\* findNearestColor(r, g, b, palette, paletteLab)
FindNearest ==
    /\ npc = "call"
    /\ nret' = NearestEntry(ncall.r, ncall.g, ncall.b, ncall.palette,
                            ncall.paletteLab)
    /\ npc' = "returned"
    /\ UNCHANGED << ncall, notNearest >>

NextNearest == FindNearest

SpecNearest == InitNearest /\ [][NextNearest]_vars

(***************************************************************************)
(* A kernel's loop with every write a step of its own: the matched colour  *)
(* written to the pixel, then each neighbour write in the order of the     *)
(* code, then the next pixel.                                              *)
(***************************************************************************)
InitWrites ==
    /\ PickerIdle
    /\ DitherIdle /\ BmpIdle /\ KernelIdle /\ ScaleIdle /\ BatchIdle
    /\ NearestIdle /\ LanczosIdle
    /\ \E k \in Algorithms, w \in 1..MaxW, h \in 1..MaxH,
          seed \in 0..(Len(InputColors) - 1), key \in PaletteKeys, s \in Strengths :
          /\ wcall = [kernel |-> k, data |-> GenImage(w, h, seed, 1),
                      width |-> w, height |-> h, paletteKey |-> key,
                      paletteLab |-> computePaletteLab(COLOR_PALETTES[key]),
                      strength |-> s]
          /\ wdata = GenImage(w, h, seed, 1)
    /\ wpx = 0 /\ werr = <<0, 0, 0>> /\ wtodo = << >> /\ wpc = "match"

\* lines 433-446: read the pixel, match it, write the matched colour, take
\* the error
WriteMatched ==
    /\ wpc = "match"
    /\ wpx < wcall.width * wcall.height
    /\ LET idx == 4 * wpx
           new == findNearestColor(wdata[idx], wdata[idx + 1], wdata[idx + 2],
                                   COLOR_PALETTES[wcall.paletteKey],
                                   wcall.paletteLab)
       IN  /\ wdata' = [wdata EXCEPT ![idx] = new[1], ![idx + 1] = new[2],
                                      ![idx + 2] = new[3]]
           /\ werr' = << wdata[idx] - new[1], wdata[idx + 1] - new[2],
                         wdata[idx + 2] - new[3] >>
    /\ wtodo' = AppliedOffsets(KernelOffsets(wcall.kernel), wpx % wcall.width,
                               wpx \div wcall.width, wcall.width, wcall.height)
    /\ wpc' = "diffuse"
    /\ UNCHANGED << wcall, wpx, notWrite >>

\* one guarded block of lines 448-473: the three assignments to a neighbour
DiffuseWrite ==
    /\ wpc = "diffuse"
    /\ wtodo # << >>
    /\ LET o == Head(wtodo)
           x == wpx % wcall.width
           y == wpx \div wcall.width
           i == ((y + o[2]) * wcall.width + (x + o[1])) * 4
       IN  wdata' = DiffuseTo(wdata, i, werr, o[3], KernelDivisor(wcall.kernel),
                              wcall.strength[1], wcall.strength[2])
    /\ wtodo' = Tail(wtodo)
    /\ UNCHANGED << wcall, wpx, werr, wpc, notWrite >>

\* the end of the loop body: x++ (or y++)
NextPixel ==
    /\ wpc = "diffuse"
    /\ wtodo = << >>
    /\ wpx' = wpx + 1
    /\ wpc' = "match"
    /\ UNCHANGED << wcall, wdata, werr, wtodo, notWrite >>

\* line 477
WritesReturn ==
    /\ wpc = "match"
    /\ wpx = wcall.width * wcall.height
    /\ wpc' = "returned"
    /\ UNCHANGED << wcall, wdata, wpx, werr, wtodo, notWrite >>

NextWrites == WriteMatched \/ DiffuseWrite \/ NextPixel \/ WritesReturn

SpecWrites == InitWrites /\ [][NextWrites]_vars

(***************************************************************************)
(* The resampler: scaleImage and scaleImageWithCrop (lib/download.ts; the  *)
(* same scaleImage is in lib/image-processing.ts).  The model follows the  *)
(* sizes (the scaled size and its position, which scaler runs, the size of *)
(* the ImageData returned) and the samples put on the target canvas, not   *)
(* the arithmetic of the filter.  The canvas platform throws an            *)
(* IndexSizeError from getImageData(0, 0, sw, sh) and from                 *)
(* new ImageData(sw, sh) when sw or sh is 0; the code has no check of its  *)
(* own.  Sizes are non-negative integers, as image.width / image.height    *)
(* are; offsets are in halves, cropOffset = <<ox, oy>> / 2.                *)
(***************************************************************************)
\* sourceRatio > targetRatio, the ratios being sW / sH (sW, sH > 0) and
\* tW / tH, which is Infinity or NaN when tH = 0: the comparison is then false
RatioGt(sW, sH, tW, tH) ==
    IF tH = 0 THEN FALSE ELSE sW * tH > tW * sH

\* a fit that takes the branches of the comparison the other way round
calculateFitDimensionsSwapped(sW, sH, tW, tH) ==
    LET wider == RatioGt(sW, sH, tW, tH)
        scaledWidth == IF wider THEN MathRound(tH * sW, sH) ELSE tW
        scaledHeight == IF wider THEN tH ELSE MathRound(tW * sH, sW)
    IN  [width |-> scaledWidth, height |-> scaledHeight,
         x |-> MathRound(tW - scaledWidth, 2),
         y |-> MathRound(tH - scaledHeight, 2)]

\* calculateFitDimensions, and the same arithmetic in the fit branch of
\* scaleImageWithCrop (lines 552-564)
calculateFitDimensions(sW, sH, tW, tH) ==
    LET wider == RatioGt(sW, sH, tW, tH)
        scaledWidth == IF wider THEN tW ELSE MathRound(tH * sW, sH)
        scaledHeight == IF wider THEN MathRound(tW * sH, sW) ELSE tH
    IN  [width |-> scaledWidth, height |-> scaledHeight,
         x |-> MathRound(tW - scaledWidth, 2),
         y |-> MathRound(tH - scaledHeight, 2)]

\* a fill placement that leaves out the centre position -maxOffset
FillDimensionsNoCentre(sW, sH, tW, tH, ox, oy) ==
    LET wider == RatioGt(sW, sH, tW, tH)
        scaledWidth == IF wider THEN MathRound(tH * sW, sH) ELSE tW
        scaledHeight == IF wider THEN tH ELSE MathRound(tW * sH, sW)
    IN  [width |-> scaledWidth, height |-> scaledHeight,
         x |-> MathRound(-((scaledWidth - tW) * ox), 4),
         y |-> MathRound(-((scaledHeight - tH) * oy), 4)]

\* the fill branch of scaleImageWithCrop (lines 534-551); with
\* maxOffset = (scaled - target) / 2 and cropOffset = o / 2,
\* -maxOffset - cropOffset * maxOffset = -(scaled - target) * (2 + o) / 4
FillDimensions(sW, sH, tW, tH, ox, oy) ==
    LET wider == RatioGt(sW, sH, tW, tH)
        scaledWidth == IF wider THEN MathRound(tH * sW, sH) ELSE tW
        scaledHeight == IF wider THEN tH ELSE MathRound(tW * sH, sW)
    IN  [width |-> scaledWidth, height |-> scaledHeight,
         x |-> MathRound(-((scaledWidth - tW) * (2 + ox)), 4),
         y |-> MathRound(-((scaledHeight - tH) * (2 + oy)), 4)]

\* Math.min(scaledWidth / sourceWidth, scaledHeight / sourceHeight) < 0.9
ScaleFactorBelow(sW, sH, scaledWidth, scaledHeight) ==
    10 * scaledWidth < 9 * sW \/ 10 * scaledHeight < 9 * sH

\* getImageData(0, 0, sw, sh) and new ImageData(sw, sh): the ImageData of
\* that size, or the IndexSizeError at the given line
ImageDataOf(sw, sh, line) ==
    IF sw = 0 \/ sh = 0
    THEN [threw |-> "IndexSizeError", line |-> line]
    ELSE [width |-> sw, height |-> sh]

Threw(r) == "threw" \in DOMAIN r

\* the crop offsets drawn, in halves: -1, -0.5, 0, 0.5, 1
OffsetHalves == {-2, -1, 0, 1, 2}

\* the source images drawn, by the pattern of their samples
SourceImages == {"gradient", "checker"}

\* the RGBA sample of a source image at (x, y); both patterns have opaque,
\* translucent and transparent samples
SourcePixel(image, x, y) ==
    IF image = "gradient"
    THEN [r |-> (80 * x) % 256, g |-> (80 * y) % 256,
          b |-> (40 * (x + y)) % 256,
          a |-> CASE (x + y) % 3 = 0 -> 255
                  [] (x + y) % 3 = 1 -> 128
                  [] OTHER -> 0]
    ELSE [r |-> 255 * ((x + y) % 2), g |-> 255 * ((x + y) % 2),
          b |-> 255 * ((x + y) % 2),
          a |-> IF x = y THEN 255 ELSE 64 * ((x + 2 * y) % 4)]

\* the background colours drawn
BackgroundColors == {"#FFFFFF", "#000000"}

ScaleCalls ==
    { [fn |-> "scaleImage", image |-> i[1], sourceWidth |-> s[1],
       sourceHeight |-> s[2], targetWidth |-> t[1], targetHeight |-> t[2],
       backgroundColor |-> i[2], cropMode |-> "fit",
       cropOffset |-> <<0, 0>>] :
      s \in (0..MaxSrc) \X (0..MaxSrc), t \in (0..MaxDst) \X (0..MaxDst),
      i \in SourceImages \X BackgroundColors }
    \cup
    { [fn |-> "scaleImageWithCrop", image |-> i[1], sourceWidth |-> s[1],
       sourceHeight |-> s[2], targetWidth |-> t[1], targetHeight |-> t[2],
       backgroundColor |-> i[2], cropMode |-> m, cropOffset |-> o] :
      s \in (0..MaxSrc) \X (0..MaxSrc), t \in (0..MaxDst) \X (0..MaxDst),
      i \in SourceImages \X BackgroundColors,
      m \in {"fit", "fill"}, o \in OffsetHalves \X OffsetHalves }

\* the pixel positions of a w x h buffer
Grid(w, h) == (0..(w - 1)) \X (0..(h - 1))

\* drawImage(image, 0, 0) on a canvas of the image's size, read back by
\* getImageData: the samples of the image.  The canvas keeps the samples it
\* is given, alpha included.
DrawImage(image, w, h) ==
    [p \in Grid(w, h) |-> SourcePixel(image, p[1], p[2])]

\* the samples of an image scaled to w x h by lanczosResample or by the
\* browser: each is a value computed by the filter for its position, which
\* the model does not follow further
ResampledData(w, h) ==
    [p \in Grid(w, h) |-> [resampledAt |-> p]]

\* tempCtx.drawImage(image, 0, 0, scaledWidth, scaledHeight) read back: the
\* image itself when it is drawn at its own size
DrawImageScaled(image, sW, sH, w, h) ==
    IF w = sW /\ h = sH THEN DrawImage(image, w, h) ELSE ResampledData(w, h)

\* the colour a fillStyle string stands for, opaque
FillStyle(color) ==
    CASE color = "#FFFFFF" -> [r |-> 255, g |-> 255, b |-> 255, a |-> 255]
      [] color = "#000000" -> [r |-> 0, g |-> 0, b |-> 0, a |-> 255]

\* a canvas that is never filled: transparent black, as it is created
FillRectNone(w, h, color) ==
    [p \in Grid(w, h) |-> [r |-> 0, g |-> 0, b |-> 0, a |-> 0]]

\* fillStyle = color; fillRect(0, 0, w, h) on a new w x h canvas
FillRect(w, h, color) ==
    [p \in Grid(w, h) |-> FillStyle(color)]

\* a sample drawn over another with source-over compositing
SourceOver(top, under) ==
    IF "a" \in DOMAIN top
    THEN [r |-> (top.r * top.a + under.r * (255 - top.a)) \div 255,
          g |-> (top.g * top.a + under.g * (255 - top.a)) \div 255,
          b |-> (top.b * top.a + under.b * (255 - top.a)) \div 255,
          a |-> 255]
    ELSE top

\* a placement that composites the image over the canvas, as drawImage does
PutImageDataBlend(canvas, data, w, h, x, y) ==
    [p \in DOMAIN canvas |->
        IF /\ p[1] >= x /\ p[1] < x + w /\ p[2] >= y /\ p[2] < y + h
        THEN SourceOver(data[<<p[1] - x, p[2] - y>>], canvas[p])
        ELSE canvas[p]]

\* putImageData(data, x, y), data being w x h: the samples of data replace
\* those of the canvas where they fall on it, alpha included
PutImageData(canvas, data, w, h, x, y) ==
    [p \in DOMAIN canvas |->
        IF /\ p[1] >= x /\ p[1] < x + w /\ p[2] >= y /\ p[2] < y + h
        THEN data[<<p[1] - x, p[2] - y>>]
        ELSE canvas[p]]

InitScale ==
    /\ PickerIdle
    /\ DitherIdle /\ BmpIdle /\ KernelIdle /\ BatchIdle /\ WriteIdle
    /\ NearestIdle /\ LanczosIdle
    /\ sc \in ScaleCalls
    /\ spc = "call"
    /\ scaled = None
    /\ resampledBy = "none"
    /\ scResult = None
    /\ scaledImageData = None
    /\ returnedData = None

\* scaleImage lines 424-431: a source already of the target size is read
\* back from its canvas unscaled
ScaleSameSize ==
    /\ spc = "call"
    /\ sc.fn = "scaleImage"
    /\ sc.sourceWidth = sc.targetWidth /\ sc.sourceHeight = sc.targetHeight
    /\ scResult' = ImageDataOf(sc.targetWidth, sc.targetHeight, 430)
    /\ spc' = IF Threw(scResult') THEN "threw" ELSE "returned"
    /\ returnedData' =
          IF Threw(scResult') THEN None
          ELSE DrawImage(sc.image, sc.sourceWidth, sc.sourceHeight)
    /\ UNCHANGED << sc, scaled, resampledBy, scaledImageData, notScale >>

\* scaleImage lines 434-447, scaleImageWithCrop lines 513-567: the scaled
\* size and position, then the read of the source pixels
ScaleBegin ==
    /\ spc = "call"
    /\ ~(/\ sc.fn = "scaleImage"
         /\ sc.sourceWidth = sc.targetWidth /\ sc.sourceHeight = sc.targetHeight)
    /\ LET src == ImageDataOf(sc.sourceWidth, sc.sourceHeight,
                              IF sc.fn = "scaleImage" THEN 447 ELSE 567)
       IN  IF Threw(src)
           THEN /\ scResult' = src
                /\ spc' = "threw"
                /\ UNCHANGED scaled
           ELSE /\ scaled' =
                     IF sc.cropMode = "fill"
                     THEN FillDimensions(sc.sourceWidth, sc.sourceHeight,
                                         sc.targetWidth, sc.targetHeight,
                                         sc.cropOffset[1], sc.cropOffset[2])
                     ELSE calculateFitDimensions(sc.sourceWidth, sc.sourceHeight,
                                                 sc.targetWidth, sc.targetHeight)
                /\ spc' = "resample"
                /\ UNCHANGED scResult
    /\ UNCHANGED << sc, resampledBy, scaledImageData, returnedData, notScale >>

\* scaleImage lines 450-471, scaleImageWithCrop lines 570-590: Lanczos below
\* a factor of 0.9, the browser's drawImage scaling otherwise.  Either
\* allocates the scaled ImageData (line 234, or getImageData at 470 / 589).
ScaleResample ==
    /\ spc = "resample"
    /\ LET lanczos == ScaleFactorBelow(sc.sourceWidth, sc.sourceHeight,
                                       scaled.width, scaled.height)
           out == ImageDataOf(scaled.width, scaled.height,
                              IF lanczos THEN 234
                              ELSE IF sc.fn = "scaleImage" THEN 470 ELSE 589)
       IN  IF Threw(out)
           THEN /\ scResult' = out
                /\ spc' = "threw"
                /\ UNCHANGED << resampledBy, scaledImageData >>
           ELSE /\ resampledBy' = IF lanczos THEN "lanczos" ELSE "browser"
                /\ scaledImageData' =
                      IF lanczos
                      THEN ResampledData(scaled.width, scaled.height)
                      ELSE DrawImageScaled(sc.image, sc.sourceWidth,
                                           sc.sourceHeight,
                                           scaled.width, scaled.height)
                /\ spc' = "compose"
                /\ UNCHANGED scResult
    /\ UNCHANGED << sc, scaled, returnedData, notScale >>

\* scaleImage lines 473-490, scaleImageWithCrop lines 592-608: the target
\* canvas, the background, the scaled pixels put at (x, y), and the read of
\* the target rectangle
ScaleCompose ==
    /\ spc = "compose"
    /\ scResult' = ImageDataOf(sc.targetWidth, sc.targetHeight,
                               IF sc.fn = "scaleImage" THEN 490 ELSE 608)
    /\ spc' = IF Threw(scResult') THEN "threw" ELSE "returned"
    /\ returnedData' =
          IF Threw(scResult') THEN None
          ELSE PutImageData(FillRect(sc.targetWidth, sc.targetHeight,
                                     sc.backgroundColor),
                            scaledImageData, scaled.width, scaled.height,
                            scaled.x, scaled.y)
    /\ UNCHANGED << sc, scaled, resampledBy, scaledImageData, notScale >>

NextScale == ScaleSameSize \/ ScaleBegin \/ ScaleResample \/ ScaleCompose

SpecScale == InitScale /\ [][NextScale]_vars

(***************************************************************************)
(* The batch of the route component: handleProcessAll, processImage and    *)
(* handleDownloadAll over the images state.  An image is known by its      *)
(* position in the list.  Whether a stage of processImage returns or       *)
(* throws, and whether the browser decodes the image, is the               *)
(* environment's choice: each outcome is an action.  error = "null" is the *)
(* null of the code; the message of a caught exception (error.message) is  *)
(* a string naming the stage that threw.                                   *)
(***************************************************************************)
\* the image handleFilesSelected adds for a file (lines 104-113)
NewImage ==
    [ditheredUrl |-> FALSE, ditheredBlob |-> FALSE, isProcessing |-> FALSE,
     needsProcessing |-> TRUE, error |-> "null"]

Ids(imgs) == 1..Len(imgs)

\* lines 52-56
MarkProcessing(imgs, id) ==
    [i \in Ids(imgs) |->
        IF i = id
        THEN [imgs[i] EXCEPT !.isProcessing = TRUE, !.needsProcessing = FALSE]
        ELSE imgs[i]]

\* lines 73-85
MarkDone(imgs, id) ==
    [i \in Ids(imgs) |->
        IF i = id
        THEN [imgs[i] EXCEPT !.ditheredUrl = TRUE, !.ditheredBlob = TRUE,
                             !.isProcessing = FALSE, !.error = "null"]
        ELSE imgs[i]]

\* a handler that drops the test of the id and marks every image
MarkFailedAll(imgs, id, message) ==
    [i \in Ids(imgs) |->
        [imgs[i] EXCEPT !.isProcessing = FALSE, !.error = message]]

\* the catch of processImage, lines 87-97
MarkFailed(imgs, id, message) ==
    [i \in Ids(imgs) |->
        IF i = id
        THEN [imgs[i] EXCEPT !.isProcessing = FALSE, !.error = message]
        ELSE imgs[i]]

\* img.onerror, lines 131-138
MarkLoadFailed(imgs, id) ==
    [i \in Ids(imgs) |->
        IF i = id
        THEN [imgs[i] EXCEPT !.isProcessing = FALSE, !.needsProcessing = FALSE,
                             !.error = "Failed to load image"]
        ELSE imgs[i]]

\* the ids of a set of images, in list order (Array.prototype.filter keeps
\* the order of the list)
RECURSIVE InOrder(_)
InOrder(ids) ==
    IF ids = {} THEN << >>
    ELSE LET first == CHOOSE i \in ids : \A j \in ids : i <= j
         IN  << first >> \o InOrder(ids \ {first})

\* line 119
ImagesToProcess(imgs) ==
    InOrder({i \in Ids(imgs) :
                \/ imgs[i].needsProcessing
                \/ (~imgs[i].ditheredUrl /\ ~imgs[i].isProcessing)})

\* lines 183-185
ImagesToDownload(imgs) ==
    InOrder({i \in Ids(imgs) :
                imgs[i].ditheredBlob /\ ~imgs[i].isProcessing
                   /\ imgs[i].error = "null"})

\* lines 220-222
processedCount(imgs) ==
    Cardinality({i \in Ids(imgs) :
                    imgs[i].ditheredUrl /\ ~imgs[i].isProcessing
                       /\ imgs[i].error = "null"})

\* lines 224-226
pendingCount(imgs) ==
    Cardinality({i \in Ids(imgs) :
                    \/ imgs[i].needsProcessing
                    \/ (~imgs[i].ditheredUrl /\ ~imgs[i].isProcessing
                           /\ imgs[i].error = "null")})

\* line 228
anyProcessing(imgs) == \E i \in Ids(imgs) : imgs[i].isProcessing

\* no stage of processImage has run for the current image
NoStage == [resample |-> "none", dither |-> "none", encode |-> "none"]

\* What a call of scaleImage gives its caller: the function is declared
\* async, so the caller holds a promise of the ImageData; the ImageData
\* itself is delivered only to an await or a then.
scaleImageReturns == "promise"

\* lines 59-67 of processImage: scaledCanvas is what scaleImage returned
\* (there is no await), and it is the argument of applyDithering
Stages(ditherEnded) ==
    [resample |-> scaleImageReturns,
     dither |-> ditherEnded,
     encode |-> IF ditherEnded = "returned" THEN "started" ELSE "none"]

InitBatch ==
    /\ PickerIdle
    /\ DitherIdle /\ BmpIdle /\ KernelIdle /\ ScaleIdle /\ WriteIdle
    /\ NearestIdle /\ LanczosIdle
    /\ images = << >>
    /\ isProcessingAll = FALSE
    /\ queue = << >>
    /\ cur = 0
    /\ bpc = "idle"
    /\ zipped = {}
    /\ succeeded = {}
    /\ pipe = NoStage

\* handleFilesSelected (lines 103-116), one file
HandleFilesSelected ==
    /\ Len(images) < MaxImages
    /\ images' = Append(images, NewImage)
    /\ UNCHANGED << isProcessingAll, queue, cur, bpc, zipped, succeeded, pipe,
                    notBatch >>

\* handleProcessAll up to its first await (lines 118-142), behind the guard
\* of its button (lines 322-325): the images to process are fixed, and the
\* first one starts loading
HandleProcessAll ==
    /\ bpc = "idle"
    /\ Len(images) > 0 /\ pendingCount(images) > 0
    /\ ~(anyProcessing(images) \/ isProcessingAll)
    /\ LET imagesToProcess == ImagesToProcess(images)
       IN  IF Len(imagesToProcess) = 0
           THEN UNCHANGED << isProcessingAll, queue, cur, bpc >>
           ELSE /\ isProcessingAll' = TRUE
                /\ queue' = imagesToProcess
                /\ cur' = 1
                /\ bpc' = "load"
    /\ UNCHANGED << images, zipped, succeeded, pipe, notBatch >>

\* resolve() of the image's promise, then the for loop of line 124: the next
\* image starts loading, or line 147 ends the run
Resolved ==
    IF cur < Len(queue)
    THEN /\ cur' = cur + 1
         /\ bpc' = "load"
         /\ UNCHANGED isProcessingAll
    ELSE /\ cur' = 0
         /\ bpc' = "idle"
         /\ isProcessingAll' = FALSE

\* img.onerror (lines 130-140): the image did not load
ImgOnError ==
    /\ bpc = "load"
    /\ images' = MarkLoadFailed(images, queue[cur])
    /\ pipe' = NoStage
    /\ Resolved
    /\ UNCHANGED << queue, zipped, succeeded, notBatch >>

\* img.onload, processImage up to its first await (lines 52-70), the
\* scaling and dithering calls returning
ImgOnLoad ==
    /\ bpc = "load"
    /\ images' = MarkProcessing(images, queue[cur])
    /\ pipe' = Stages("returned")
    /\ bpc' = "toBlob"
    /\ UNCHANGED << isProcessingAll, queue, cur, zipped, succeeded, notBatch >>

\* img.onload, the scaling or dithering call throwing: the catch runs in
\* the same task
ImgOnLoadThrows ==
    /\ bpc = "load"
    /\ images' = MarkFailed(MarkProcessing(images, queue[cur]), queue[cur],
                            "scaling or dithering failed")
    /\ pipe' = Stages("threw")
    /\ Resolved
    /\ UNCHANGED << queue, zipped, succeeded, notBatch >>

\* await canvasToBlob (line 70) resolves
CanvasToBlobResolves ==
    /\ bpc = "toBlob"
    /\ bpc' = "toDataUrl"
    /\ UNCHANGED << images, isProcessingAll, queue, cur, zipped, succeeded, pipe,
                    notBatch >>

\* await canvasToBlob rejects
CanvasToBlobRejects ==
    /\ bpc = "toBlob"
    /\ images' = MarkFailed(images, queue[cur], "canvasToBlob failed")
    /\ Resolved
    /\ UNCHANGED << queue, zipped, succeeded, pipe, notBatch >>

\* await blobToDataUrl (line 71) resolves; lines 73-85 store the result
BlobToDataUrlResolves ==
    /\ bpc = "toDataUrl"
    /\ images' = MarkDone(images, queue[cur])
    /\ succeeded' = succeeded \cup {queue[cur]}
    /\ Resolved
    /\ UNCHANGED << queue, zipped, pipe, notBatch >>

\* await blobToDataUrl rejects
BlobToDataUrlRejects ==
    /\ bpc = "toDataUrl"
    /\ images' = MarkFailed(images, queue[cur], "blobToDataUrl failed")
    /\ Resolved
    /\ UNCHANGED << queue, zipped, succeeded, pipe, notBatch >>

\* handleDownloadAll (lines 182-195), behind the guard of its button
\* (line 343)
HandleDownloadAll ==
    /\ processedCount(images) > 0
    /\ LET imagesToDownload == ImagesToDownload(images)
       IN  IF Len(imagesToDownload) = 0
           THEN UNCHANGED zipped
           ELSE zipped' = {imagesToDownload[k] : k \in 1..Len(imagesToDownload)}
    /\ UNCHANGED << images, isProcessingAll, queue, cur, bpc, succeeded, pipe,
                    notBatch >>

NextBatch ==
    \/ HandleFilesSelected
    \/ HandleProcessAll
    \/ ImgOnError
    \/ ImgOnLoad
    \/ ImgOnLoadThrows
    \/ CanvasToBlobResolves
    \/ CanvasToBlobRejects
    \/ BlobToDataUrlResolves
    \/ BlobToDataUrlRejects
    \/ HandleDownloadAll

SpecBatch == InitBatch /\ [][NextBatch]_vars

(***************************************************************************)
(* Properties of the ditherer.                                             *)
(***************************************************************************)
Range(seq) == {seq[i] : i \in 1..Len(seq)}

\* the RGB triple of pixel p of a buffer
Rgb(data, p) == << data[4 * p], data[4 * p + 1], data[4 * p + 2] >>

Pixels(img) == 0..(img.width * img.height - 1)

\* C1 -- Palette closure: every pixel of the buffer applyDithering returns
\* has an RGB triple that is an entry of the selected palette, for every
\* input, palette, kernel, strength and contrast.
C1_PaletteClosure ==
    dpc \in {"returned", "encoding", "encoded"} =>
        \A p \in Pixels(result) :
            Rgb(heap[result.data], p) \in Range(COLOR_PALETTES[paletteKey])

\* C1 witness: a 3 x 3 image went through Stucki at strength 1.5 after a
\* contrast pre-pass, and the diffusion decided a pixel: its output is not the
\* colour its own pre-pass value matches.
C1_Witness ==
    /\ dpc = "returned"
    /\ algorithm = "stucki"
    /\ result.width = 3 /\ result.height = 3
    /\ strength = <<3, 2>> /\ contrast = <<3, 2>>
    /\ \E p \in Pixels(result) :
          Rgb(heap[result.data], p) #
             findNearestColor(heap[processed][4 * p], heap[processed][4 * p + 1],
                              heap[processed][4 * p + 2],
                              COLOR_PALETTES[paletteKey], paletteLab)

\* C6 -- Determinism: a second run of contrast, dithering and BMP encoding on
\* the same input buffer with the same palette, kernel, strength and contrast
\* ends with the encoder in the same state, so the bytes are identical.
C6_Determinism ==
    (dpc = "encoded" /\ run = 2) => encoded = firstRun

\* C6 witness: the repeat of a run that had a contrast pre-pass and a
\* non-zero strength on a 3 x 3 image has been encoded.
C6_Witness ==
    /\ dpc = "encoded" /\ run = 2
    /\ imageData.width = 3 /\ imageData.height = 3
    /\ contrast = <<1, 2>> /\ strength = <<1, 1>> /\ algorithm = "jarvis"
    /\ firstRun # None

\* C8 -- Unknown selector: a call with an algorithm that is not one of the
\* four kernels, or a palette key that is not in the table, fails and
\* returns no dithered buffer.
C8_UnknownSelectorFails ==
    (algorithm \notin Algorithms \/ paletteKey \notin PaletteKeys) =>
        (dpc \in {"idle", "threw"} /\ result = None)


(***************************************************************************)
(* Properties of the encoder.                                              *)
(***************************************************************************)
\* the unsigned little-endian value of the n <= 3 bytes at offset
LeValue(buf, offset, n) ==
    buf[offset] + (IF n > 1 THEN 256 * buf[offset + 1] ELSE 0)
                + (IF n > 2 THEN 65536 * buf[offset + 2] ELSE 0)

\* the signed 32-bit little-endian value at offset
Int32At(buf, offset) ==
    LeValue(buf, offset, 3)
      + 16777216 * (IF buf[offset + 3] >= 128 THEN buf[offset + 3] - 256
                                              ELSE buf[offset + 3])

\* the least multiple of 4 that holds the 3 * W bytes of a row
PaddedRow(W) == CHOOSE r \in (3 * W)..(3 * W + 3) : r % 4 = 0

\* C3 -- BMP pixel layout: the byte at 54 + y * rowSize + 3 * x + k is the
\* Blue, Green, Red sample (k = 0, 1, 2) of the input pixel at column x of
\* the y-th row from the top, the bytes after the pixels of a row are zero,
\* and a 1 x 1 pure red pixel gives the row 0, 0, 255, 0.
C3_PixelLayout ==
    bmpPc = "done" =>
        LET W == bmpIn.width
            H == bmpIn.height
            R == PaddedRow(W)
        IN  /\ ~bmp.threw
            /\ \A y \in 0..(H - 1) :
                  /\ \A x \in 0..(W - 1) : \A k \in 0..2 :
                        bmp.buf[54 + y * R + 3 * x + k]
                           = bmpIn.data[(y * W + x) * 4 + (2 - k)]
                  /\ \A q \in (3 * W)..(R - 1) : bmp.buf[54 + y * R + q] = 0
            /\ (W = 1 /\ H = 1 /\ Rgb(bmpIn.data, 0) = <<255, 0, 0>>) =>
                  << bmp.buf[54], bmp.buf[55], bmp.buf[56], bmp.buf[57] >>
                     = <<0, 0, 255, 0>>

\* C3 witness: a two-row image of width 3 whose first pixel is red and whose
\* last is not has been encoded.
C3_Witness ==
    /\ bmpPc = "done"
    /\ bmpIn.width = 3 /\ bmpIn.height = 2
    /\ Rgb(bmpIn.data, 0) = <<255, 0, 0>>
    /\ Rgb(bmpIn.data, 5) = <<10, 20, 30>>

\* C4 -- Row padding: every encoded row occupies ceil(3W / 4) * 4 bytes, a
\* multiple of 4 with 0 to 3 bytes of padding, and the pixel data occupies
\* that row size times H bytes.
C4_RowPadding ==
    bmpPc \in {"rows", "done"} =>
        LET W == bmpIn.width
            R == PaddedRow(W)
        IN  /\ R % 4 = 0 /\ R - 3 * W \in 0..3
            /\ ~bmp.threw
            /\ bmp.offset = 54 + bmpY * R
            /\ bmpPc = "done" =>
                  /\ bmp.offset - 54 = R * bmpIn.height
                  /\ DOMAIN bmp.buf = 0..(54 + R * bmpIn.height - 1)

\* C4 witness: a row of width 3 (9 bytes of pixels, 3 of padding) has been
\* written after another one.
C4_Witness ==
    bmpPc = "rows" /\ bmpIn.width = 3 /\ bmpY = 2

\* C5 -- Header consistency: the encoder writes exactly 54 + rowSize * H
\* bytes, never past the buffer, and the header declares that total, data
\* offset 54, header size 40, width W, height -H, planes 1, 24 bits per
\* pixel, compression 0 and image size rowSize * H.
C5_HeaderConsistency ==
    bmpPc = "done" =>
        LET W == bmpIn.width
            H == bmpIn.height
            total == 54 + PaddedRow(W) * H
        IN  /\ ~bmp.threw
            /\ bmp.offset = total
            /\ DOMAIN bmp.buf = 0..(total - 1)
            /\ Int32At(bmp.buf, 2) = total
            /\ Int32At(bmp.buf, 10) = 54
            /\ Int32At(bmp.buf, 14) = 40
            /\ Int32At(bmp.buf, 18) = W
            /\ Int32At(bmp.buf, 22) = -H
            /\ LeValue(bmp.buf, 26, 2) = 1
            /\ LeValue(bmp.buf, 28, 2) = 24
            /\ Int32At(bmp.buf, 30) = 0
            /\ Int32At(bmp.buf, 34) = PaddedRow(W) * H

\* C5 witness: a 4 x 2 image (no padding) has been encoded.
C5_Witness ==
    bmpPc = "done" /\ bmpIn.width = 4 /\ bmpIn.height = 2 /\ bmp.offset = 78

(***************************************************************************)
(* Properties of the kernels.                                              *)
(***************************************************************************)
\* the sum of the weights of a list of (dx, dy, weight)
RECURSIVE WeightSum(_)
WeightSum(offs) ==
    IF offs = << >> THEN 0 ELSE Head(offs)[3] + WeightSum(Tail(offs))

\* a pixel with two columns on each side and two rows below: no neighbour of
\* any kernel falls outside the image
Interior(k) ==
    k.x >= 2 /\ k.x + 2 < k.width /\ k.y + 2 < k.height

\* C7 -- Weight conservation as claimed: for every kernel, the weights
\* applied to the neighbours of an interior pixel sum to the divisor (16, 8,
\* 42, 48 for Floyd-Steinberg, Atkinson, Stucki, Jarvis-Judice-Ninke).
C7_WeightsSumToDivisor ==
    (kpc = "applied" /\ Interior(kcall)) =>
        /\ WeightSum(applied) = KernelDivisor(kcall.kernel)
        /\ KernelDivisor(kcall.kernel) =
              (CASE kcall.kernel = "floyd-steinberg" -> 16
                 [] kcall.kernel = "atkinson" -> 8
                 [] kcall.kernel = "stucki" -> 42
                 [] kcall.kernel = "jarvis" -> 48)

\* C7 (amended) -- Floyd-Steinberg, Stucki and Jarvis-Judice-Ninke apply
\* weights that sum to their divisor (16, 42, 48) at an interior pixel;
\* Atkinson applies six weights of 1 and divides by 8, so it passes on 6/8 of
\* the error; at the edges neighbours are skipped and no kernel ever applies
\* more than its divisor.
C7_WeightConservation ==
    kpc = "applied" =>
        LET k == kcall.kernel
            sum == WeightSum(applied)
        IN  /\ sum <= KernelDivisor(k)
            /\ Interior(kcall) =>
                  /\ k = "floyd-steinberg" => (sum = 16 /\ KernelDivisor(k) = 16)
                  /\ k = "stucki" => (sum = 42 /\ KernelDivisor(k) = 42)
                  /\ k = "jarvis" => (sum = 48 /\ KernelDivisor(k) = 48)
                  /\ k = "atkinson" =>
                        /\ sum = 6 /\ KernelDivisor(k) = 8
                        /\ Len(applied) = 6
                        /\ \A j \in 1..6 : applied[j][3] = 1

\* C7 witness: Atkinson has written its six neighbours of an interior pixel.
C7_Witness ==
    /\ kpc = "applied" /\ kcall.kernel = "atkinson" /\ Interior(kcall)
    /\ Len(applied) = 6

(***************************************************************************)
(* Properties of the resampler.                                            *)
(***************************************************************************)
\* C2 -- Dimension invariant: for a source and a target whose sides are all
\* at least 1, in both modes and at every offset, the call returns a buffer
\* of exactly the target width and height.
C2_DimensionInvariant ==
    (/\ sc.sourceWidth >= 1 /\ sc.sourceHeight >= 1
     /\ sc.targetWidth >= 1 /\ sc.targetHeight >= 1
     /\ spc \in {"returned", "threw"}) =>
        /\ spc = "returned"
        /\ scResult = [width |-> sc.targetWidth, height |-> sc.targetHeight]

\* C9 -- Zero-area input: a call whose source or target has a zero side
\* ends in an exception and not in a buffer, and no scaling has been done
\* for it at any point.
C9_ZeroAreaRejectedFirst ==
    (0 \in {sc.sourceWidth, sc.sourceHeight, sc.targetWidth, sc.targetHeight}) =>
        /\ spc # "returned"
        /\ resampledBy = "none"

(***************************************************************************)
(* Properties of the batch.                                                *)
(***************************************************************************)
\* the images of the running batch other than the one being processed, and
\* every image when no batch runs
Others == {i \in Ids(images) : bpc = "idle" \/ i # queue[cur]}

\* C10 -- Batch failure isolation: a step of the batch changes no image but
\* the one being processed, so a failure puts only that image in the error
\* state; when the run is over isProcessingAll is false and every image
\* selected for it has been attempted and is at rest, failed (error set) or
\* succeeded; an image that succeeded stays downloadable whatever happens to
\* the others, and every download takes all of them.
C10_BatchIsolation ==
    /\ [](/\ isProcessingAll = (bpc # "idle")
          /\ \A i \in succeeded : \E k \in 1..Len(ImagesToDownload(images)) :
                ImagesToDownload(images)[k] = i
          /\ (bpc = "idle" /\ queue # << >>) =>
                \A k \in 1..Len(queue) :
                    LET img == images[queue[k]]
                    IN  /\ ~img.isProcessing /\ ~img.needsProcessing
                        /\ (img.error # "null") # (queue[k] \in succeeded))
    /\ [][/\ \A i \in Others : images'[i] = images[i]
          /\ zipped' # zipped => succeeded \subseteq zipped']_vars

\* C10 witness: a run over three images is over in which the first image
\* failed to load, the second failed in processing and the third, attempted
\* after both, succeeded and has been downloaded.
C10_Witness ==
    /\ bpc = "idle" /\ ~isProcessingAll
    /\ queue = <<1, 2, 3>>
    /\ images[1].error = "Failed to load image" /\ ~images[1].isProcessing
    /\ images[2].error = "canvasToBlob failed" /\ ~images[2].isProcessing
    /\ 3 \in succeeded /\ zipped = {3}

\* C11 -- Stage ordering: the dithering call of processImage is made only
\* with a resampler result that has been delivered (the ImageData, not a
\* promise of it), and the encoding is started only after the dithering call
\* has returned.
C11_StageOrdering ==
    /\ pipe.dither # "none" => pipe.resample = "delivered"
    /\ pipe.encode # "none" => pipe.dither = "returned"

\* the placement of a call that got as far as computing it
Placed == "width" \in DOMAIN scaled

\* one axis of a fill placement: the scaled extent s, the target extent t,
\* the position p and the offset o (in halves)
FillAxis(s, t, p, o) ==
    /\ s >= t
    \* p = round(-maxOffset - (o / 2) * maxOffset), maxOffset = (s - t) / 2
    /\ 4 * p + (s - t) * (2 + o) >= -2
    /\ 4 * p + (s - t) * (2 + o) <= 2
    \* the image covers the canvas on this axis
    /\ p <= 0 /\ p + s >= t
    \* offset 0: the overflow on the two sides differs by at most one pixel
    /\ o = 0 => (p + s - t) - (-p) \in {-1, 0, 1}
    \* offset -1 and +1: an image edge on the canvas edge
    /\ o = -2 => p = 0
    /\ o = 2 => p + s = t

\* C12 -- Fill-mode coverage: in fill mode, for every source and target size
\* and every offset in [-1,1] x [-1,1], the scaled dimensions are at least the
\* target dimensions, the position is round(centre - offset * maxOffset), the
\* placed image covers the whole target canvas on both axes, offset 0 is
\* centred and offset -1 / +1 puts one image edge on the canvas edge.
C12_FillCoverage ==
    (sc.cropMode = "fill" /\ Placed) =>
        /\ FillAxis(scaled.width, sc.targetWidth, scaled.x, sc.cropOffset[1])
        /\ FillAxis(scaled.height, sc.targetHeight, scaled.y, sc.cropOffset[2])

\* C12 witness: a fill call has returned whose scaled image overflows the
\* canvas by an odd number of columns, panned by half the maximum to one side
\* and fully to the other edge on the other axis.
C12_Witness ==
    /\ sc.cropMode = "fill" /\ spc = "returned" /\ Placed
    /\ (scaled.width - sc.targetWidth) % 2 = 1
    /\ sc.cropOffset = <<1, 2>>
    /\ scaled.x < 0

\* C13 -- Fit-mode containment: in fit mode, for every source and target size,
\* the scaled image has one dimension equal to the target dimension and the
\* other at most the target dimension, and the rectangle it is placed in lies
\* inside the target canvas on both axes.
C13_FitContainment ==
    (sc.cropMode = "fit" /\ Placed) =>
        /\ \/ scaled.width = sc.targetWidth /\ scaled.height <= sc.targetHeight
           \/ scaled.height = sc.targetHeight /\ scaled.width <= sc.targetWidth
        /\ scaled.x >= 0 /\ scaled.x + scaled.width <= sc.targetWidth
        /\ scaled.y >= 0 /\ scaled.y + scaled.height <= sc.targetHeight

\* C13 witness: a fit call of scaleImageWithCrop has returned whose scaled
\* image is letterboxed by an odd number of rows, so that the centre position
\* is rounded.
C13_Witness ==
    /\ sc.fn = "scaleImageWithCrop" /\ sc.cropMode = "fit"
    /\ spc = "returned" /\ Placed
    /\ scaled.width = sc.targetWidth
    /\ (sc.targetHeight - scaled.height) % 2 = 1
    /\ scaled.y > 0

\* the position p of the target canvas lies in the rectangle the scaled
\* image is placed in
InPlacement(p) ==
    /\ p[1] >= scaled.x /\ p[1] < scaled.x + scaled.width
    /\ p[2] >= scaled.y /\ p[2] < scaled.y + scaled.height

\* C14 -- Background fill: in fit mode every pixel of the returned buffer
\* outside the rectangle where the scaled image is placed equals the
\* requested background colour, and every pixel inside that rectangle is the
\* sample of the scaled image that falls on it.
C14_BackgroundFill ==
    (sc.cropMode = "fit" /\ spc = "returned" /\ Placed) =>
        /\ DOMAIN returnedData = Grid(sc.targetWidth, sc.targetHeight)
        /\ \A p \in Grid(sc.targetWidth, sc.targetHeight) :
              IF InPlacement(p)
              THEN returnedData[p] =
                       scaledImageData[<<p[1] - scaled.x, p[2] - scaled.y>>]
              ELSE returnedData[p] = FillStyle(sc.backgroundColor)

\* C14 witness: a fit call on a black background has returned a canvas
\* with a letterbox row above and below a resampled image.
C14_Witness ==
    /\ sc.cropMode = "fit" /\ spc = "returned" /\ Placed
    /\ sc.backgroundColor = "#000000"
    /\ resampledBy = "lanczos"
    /\ scaled.y > 0 /\ scaled.y + scaled.height < sc.targetHeight
    /\ returnedData[<<0, 0>>] = FillStyle("#000000")
    /\ returnedData[<<0, scaled.y>>] = [resampledAt |-> <<0, 0>>]

C16_NoAliasing ==
    /\ [](/\ dpc = "pass" => (work # imageData.data /\ processed # imageData.data)
          /\ "data" \in DOMAIN result =>
                /\ result.data # imageData.data
                /\ result.width = imageData.width
                /\ result.height = imageData.height)
    /\ [][\A id \in DOMAIN heap :
            heap'[id] # heap[id] => (id = work /\ id # imageData.data)]_vars

\* C16 witness: applyDithering has returned, after a contrast pre-pass and a
\* diffusion at full strength, a buffer whose samples differ from the input's.
C16_Witness ==
    /\ dpc = "returned"
    /\ contrast = <<3, 2>> /\ strength = <<1, 1>>
    /\ imageData.width = MaxW /\ imageData.height = MaxH
    /\ heap[result.data] # heap[imageData.data]
    /\ heap[processed] # heap[imageData.data]

\* the R, G, B samples of pixel q of a buffer
RgbAt(data, q) == << data[4 * q], data[4 * q + 1], data[4 * q + 2] >>

\* C17 -- Causal kernels, final decisions: every diffusion offset of the four
\* kernels has dy >= 0, and dx > 0 when dy = 0; in the row-major pass a step
\* visits the next pixel in order and leaves it holding its matched palette
\* colour, no step changes the RGB of a pixel visited before, and the kernel
\* returns when every pixel has been visited once.
C17_CausalFinal ==
    /\ [](\A k \in Algorithms : \A i \in DOMAIN KernelOffsets(k) :
              LET o == KernelOffsets(k)[i]
              IN  o[2] >= 0 /\ (o[2] = 0 => o[1] > 0))
    /\ [][(dpc = "pass" /\ dpc' = "pass") =>
            /\ work' = work /\ px' = px + 1
            /\ px < imageData.width * imageData.height
            /\ RgbAt(heap'[work], px) =
                  findNearestColor(heap[work][4 * px], heap[work][4 * px + 1],
                                   heap[work][4 * px + 2],
                                   COLOR_PALETTES[paletteKey], paletteLab)
            /\ \A q \in 0..(px - 1) :
                  RgbAt(heap'[work], q) = RgbAt(heap[work], q)]_vars
    /\ [][(dpc = "pass" /\ dpc' # "pass") =>
            (px = imageData.width * imageData.height /\ heap' = heap)]_vars

\* C17 witness: the Jarvis pass over the largest image has visited every
\* pixel at full strength, and diffusion changed a pixel before its visit
\* (the last pixel's colour is not the match of its input colour).
C17_Witness ==
    /\ dpc = "pass" /\ algorithm = "jarvis" /\ strength = <<1, 1>>
    /\ imageData.width = MaxW /\ imageData.height = MaxH
    /\ px = MaxW * MaxH
    /\ RgbAt(heap[work], px - 1) #
          findNearestColor(heap[processed][4 * (px - 1)],
                           heap[processed][4 * (px - 1) + 1],
                           heap[processed][4 * (px - 1) + 2],
                           COLOR_PALETTES[paletteKey], paletteLab)

\* v is what a byte buffer holds after n / d, clamped to [0, 255], is stored
\* in it: 0 or 255 beyond the range, a nearest integer within it
StoredAs(v, n, d) ==
    IF n <= 0 THEN v = 0
    ELSE IF n >= 255 * d THEN v = 255
    ELSE v \in 0..255 /\ 2 * v * d - 2 * n <= d /\ 2 * n - 2 * v * d <= d

\* the weights of the kernel's offsets that lead from pixel (x, y) to (qx, qy)
WeightsTo(kernel, x, y, qx, qy) ==
    { KernelOffsets(kernel)[i][3] : i \in
        { j \in DOMAIN KernelOffsets(kernel) :
            /\ x + KernelOffsets(kernel)[j][1] = qx
            /\ y + KernelOffsets(kernel)[j][2] = qy } }

\* C18 -- Effect of one diffusion step: when pixel (x, y) is quantized, with
\* error e = (value before the match - matched value) * strength per channel,
\* each pixel of the buffer that is a kernel neighbour (x + dx, y + dy) has
\* e * weight / divisor added to each of its R, G, B (as a byte buffer stores
\* the sum); a neighbour outside the buffer receives nothing and its share
\* goes to no other pixel: every pixel other than (x, y) and the neighbours
\* inside the buffer, and every alpha sample, is left as it was.
C18_DiffusionStep ==
    [][(dpc = "pass" /\ dpc' = "pass") =>
         LET width == imageData.width
             x == px % width
             y == px \div width
             before == heap[work]
             after == heap'[work]
             kernel == KernelFor(algorithm)
         IN  \A q \in 0..(width * imageData.height - 1) :
               LET ws == WeightsTo(kernel, x, y, q % width, q \div width)
               IN  /\ after[4 * q + 3] = before[4 * q + 3]
                   /\ (q # px /\ ws = {}) => RgbAt(after, q) = RgbAt(before, q)
                   /\ (q # px /\ ws # {}) =>
                         \A w \in ws : \A c \in 0..2 :
                            StoredAs(after[4 * q + c],
                                     before[4 * q + c] * KernelDivisor(kernel) * strength[2]
                                       + (before[4 * px + c] - after[4 * px + c])
                                           * strength[1] * w,
                                     KernelDivisor(kernel) * strength[2])]_vars

\* C18 witness: a Floyd-Steinberg pass at strength 1.5 has just quantized the
\* last pixel of the first row, whose right and lower-right neighbours are
\* outside the buffer: the pixel below it has received error, and the first
\* pixel of the next row, where a wrapped index would fall, is as it was.
C18_Witness ==
    /\ dpc = "pass" /\ algorithm = "floyd-steinberg" /\ strength = <<3, 2>>
    /\ imageData.width = MaxW /\ imageData.height = MaxH
    /\ px = MaxW
    /\ RgbAt(heap[work], 2 * MaxW - 1) # RgbAt(heap[processed], 2 * MaxW - 1)
    /\ RgbAt(heap[work], MaxW) = RgbAt(heap[processed], MaxW)

\* C19 -- Immediate clamping: at every point of a kernel's pass, after each
\* single write to a neighbour, every R, G and B sample of the working buffer
\* is within [0, 255], for every strength in [0, 1.5]; no value outside the
\* range is in the buffer between two diffusions into the same pixel.
C19_ImmediateClamping ==
    wpc # "off" => \A j \in DOMAIN wdata : wdata[j] \in 0..255

\* C19 witness: at strength 1.5, between two neighbour writes of one pixel, a
\* sample of a pixel not yet visited stands at 255 or at 0, which its input
\* value was not.
C19_Witness ==
    /\ wpc = "diffuse" /\ wcall.strength = <<3, 2>>
    /\ wtodo # << >>
    /\ Len(wtodo) < Len(AppliedOffsets(KernelOffsets(wcall.kernel),
                                       wpx % wcall.width, wpx \div wcall.width,
                                       wcall.width, wcall.height))
    /\ \E q \in (wpx + 1)..(wcall.width * wcall.height - 1) : \E c \in 0..2 :
          /\ wdata[4 * q + c] \in {0, 255}
          /\ wcall.data[4 * q + c] \notin {0, 255}

\* the blue override applies to the call: a near-blue input and a blue entry
OverrideApplies ==
    /\ BlueInput(ncall.r, ncall.g, ncall.b)
    /\ \E i \in DOMAIN ncall.palette : BlueEntry(ncall.palette[i])

\* the Lab distance (squared) of the call's input to entry i of its palette
DistanceTo(i) ==
    labDistance(rgbToLab(ncall.r, ncall.g, ncall.b),
                rgbToLab(ncall.palette[i][1], ncall.palette[i][2],
                         ncall.palette[i][3]))

\* C20 -- Tie-break: when the blue override does not apply, findNearestColor
\* returns a palette entry at the smallest Lab distance from the input, and
\* of the entries at that distance the one with the lowest index.
C20_TieBreak ==
    (npc = "returned" /\ ~OverrideApplies) =>
        /\ nret \in DOMAIN ncall.palette
        /\ \A j \in DOMAIN ncall.palette : DistanceTo(nret) <= DistanceTo(j)
        /\ \A j \in 1..(nret - 1) : DistanceTo(j) > DistanceTo(nret)

\* C20 witness: without the override, the entry returned is not the first of
\* the palette and a later entry is at the same distance.
C20_Witness ==
    /\ npc = "returned" /\ ~OverrideApplies
    /\ nret > 1
    /\ \E j \in (nret + 1)..Len(ncall.palette) : DistanceTo(j) = DistanceTo(nret)

\* the entries of the call's palette with b > 200, r < 50 and g < 50
BlueEntries ==
    { i \in DOMAIN ncall.palette :
        /\ ncall.palette[i][3] > 200
        /\ ncall.palette[i][1] < 50
        /\ ncall.palette[i][2] < 50 }

\* the call's input colour has r < 50, g < 150 and b > 100
NearBlueInput == ncall.r < 50 /\ ncall.g < 150 /\ ncall.b > 100

\* entry i is the first of the entries at the least Lab distance
LabNearest(i) ==
    /\ \A j \in DOMAIN ncall.palette : DistanceTo(i) <= DistanceTo(j)
    /\ \A j \in 1..(i - 1) : DistanceTo(j) > DistanceTo(i)

\* C21 -- Blue override: for an input with r < 50, g < 150 and b > 100 and a
\* palette that has an entry with b > 200, r < 50, g < 50, findNearestColor
\* returns the first such entry, whatever the Lab distances; with no such
\* entry, or another input, it returns the Lab-nearest entry.  Either way the
\* result is an entry of the palette.
C21_BlueOverride ==
    npc = "returned" =>
        /\ nret \in DOMAIN ncall.palette
        /\ IF NearBlueInput /\ BlueEntries # {}
           THEN nret \in BlueEntries /\ \A j \in BlueEntries : nret <= j
           ELSE LabNearest(nret)

\* C21 witness: the override has returned a blue entry that is not at the
\* least Lab distance from the input.
C21_Witness ==
    /\ npc = "returned"
    /\ NearBlueInput /\ nret \in BlueEntries
    /\ \E j \in DOMAIN ncall.palette : DistanceTo(j) < DistanceTo(nret)

\* v is sample u after the contrast transform for contrast = n / d, stored in
\* a byte: with c = n / d - 1 the factor 259 (255 c + 255) / (255 (259 - 255 c))
\* is 259 n / (514 d - 255 n), and the sample becomes factor * (u - 128) + 128
ContrastOf(v, u, n, d) ==
    StoredAs(v, 259 * n * (u - 128) + 128 * (514 * d - 255 * n),
             514 * d - 255 * n)

\* C22 -- Contrast pre-pass ordering: when contrast is not 1.0 every R, G, B
\* sample of the buffer that enters the diffusion pass is the contrast
\* transform, applied once, of the input's sample, the transform being
\* complete before the first pixel is quantized; when contrast is 1.0 the
\* buffer entering the pass equals the input sample for sample.  Alpha is
\* the input's in both cases.
C22_ContrastFirst ==
    dpc \in {"pass", "returned"} =>
        LET input == heap[imageData.data]
            entering == heap[processed]
        IN  /\ DOMAIN entering = DOMAIN input
            /\ \A i \in DOMAIN input :
                  IF i % 4 = 3 \/ contrast[1] = contrast[2]
                  THEN entering[i] = input[i]
                  ELSE ContrastOf(entering[i], input[i], contrast[1], contrast[2])
            /\ (dpc = "pass" /\ px = 0) => heap[work] = entering

\* C22 witness: a pass at contrast 1.5 is about to quantize its first pixel,
\* and the buffer it starts from differs from the input in a sample that a
\* second application of the transform would change again.
C22_Witness ==
    /\ dpc = "pass" /\ px = 0 /\ contrast = <<3, 2>>
    /\ \E i \in DOMAIN heap[work] :
          /\ i % 4 # 3
          /\ heap[work][i] # heap[imageData.data][i]
          /\ ~ContrastOf(heap[work][i], heap[work][i], 3, 2)

\* C23 -- Fit-mode offset: in fit mode the scaled image is placed at the
\* centred position displaced by the crop offset: in the ImageData returned
\* by a fit call of scaleImageWithCrop, with room of two or more
\* columns beside the image and the offset at -1 or +1, its position is not
\* the centred one (and likewise for rows).
C23_FitOffsetDisplaces ==
    (/\ sc.fn = "scaleImageWithCrop" /\ sc.cropMode = "fit"
     /\ spc = "returned" /\ Placed) =>
        /\ (sc.targetWidth - scaled.width >= 2 /\ sc.cropOffset[1] \in {-2, 2})
              => scaled.x # MathRound(sc.targetWidth - scaled.width, 2)
        /\ (sc.targetHeight - scaled.height >= 2 /\ sc.cropOffset[2] \in {-2, 2})
              => scaled.y # MathRound(sc.targetHeight - scaled.height, 2)

\* floor(srcCoord) for the destination index d of an axis, srcCoord being
\* (d + 0.5) * (srcSize / dstSize) - 0.5: the integer f with
\* f <= srcCoord < f + 1
CoordFloor(srcSize, dstSize, d) ==
    CHOOSE f \in (-1)..srcSize :
        /\ 2 * dstSize * f <= (2 * d + 1) * srcSize - dstSize
        /\ (2 * d + 1) * srcSize - dstSize < 2 * dstSize * (f + 1)

\* the set of the elements of a sequence
Elements(seq) == { seq[i] : i \in DOMAIN seq }

\* the windows computed so far on both axes are those from floor - below to
\* floor + above, clipped to the source
WindowsAre(below, above) ==
    /\ \A k \in DOMAIN xIndices :
          Elements(xIndices[k]) =
             { i \in 0..(lcall.srcWidth - 1) :
                 LET f == CoordFloor(lcall.srcWidth, lcall.destWidth, k - 1)
                 IN  f - below <= i /\ i <= f + above }
    /\ \A k \in DOMAIN yIndices :
          Elements(yIndices[k]) =
             { i \in 0..(lcall.srcHeight - 1) :
                 LET f == CoordFloor(lcall.srcHeight, lcall.destHeight, k - 1)
                 IN  f - below <= i /\ i <= f + above }

\* C24 (as stated) -- Lanczos contributor window: for every destination
\* index the source indices weighted are exactly those within +/-(a - 1) =
\* +/-2 of floor(srcCoord), clipped to [0, srcSize - 1].
C24_WindowPlusMinusTwo == WindowsAre(2, 2)

\* C24 (amended) -- Lanczos contributor window: for every destination index
\* the source indices weighted are exactly those from floor(srcCoord) - 2 to
\* floor(srcCoord) + 3, clipped to [0, srcSize - 1].
C24_WindowSixTaps == WindowsAre(2, 3)

\* C24 witness: the weights of both axes are computed; one column has the
\* full window of six source columns, another has its window clipped at the
\* first column.
C24_Witness ==
    /\ lpc = "resample"
    /\ \E k \in DOMAIN xIndices : Len(xIndices[k]) = 6
    /\ \E k \in DOMAIN yIndices :
          /\ Len(yIndices[k]) < 6 /\ yIndices[k][1] = 0
          /\ CoordFloor(lcall.srcHeight, lcall.destHeight, k - 1) < 2
          /\ Len(yIndices[k]) > 3

\* a list of normalized weights (units of 1/10000) sums to 1, each weight
\* being off by at most half a unit
SumsToOne(weights) ==
    /\ \A i \in DOMAIN weights : weights[i] # Infinity
    /\ SumOf(weights) >= 10000 - Len(weights)
    /\ SumOf(weights) <= 10000 + Len(weights)

\* C25 -- Lanczos normalization: for every destination pixel, near the
\* edges included, the horizontal weights sum to 1 and the vertical weights
\* sum to 1, so the weights xWeight * yWeight applied to the source pixels
\* of a destination pixel sum to 1.
C25_Normalization ==
    /\ \A k \in DOMAIN xWeights : SumsToOne(xWeights[k])
    /\ \A k \in DOMAIN yWeights : SumsToOne(yWeights[k])
    /\ destPx > 0 =>
          /\ weightTotal # Infinity
          /\ weightTotal >= 10000 * 10000 - 12 * 10000
          /\ weightTotal <= 10000 * 10000 + 12 * 10000 + 36

\* C25 witness: a destination pixel has been resampled whose window is
\* clipped at the left edge on the x axis and is the full six taps on the
\* y axis, and whose weights before normalization do not sum to 1.
C25_Witness ==
    /\ destPx > 0
    /\ LET destX == (destPx - 1) % lcall.destWidth
           destY == (destPx - 1) \div lcall.destWidth
       IN  /\ Len(xIndices[destX + 1]) \in 2..5
           /\ xIndices[destX + 1][1] = 0
           /\ FloorSrc(lcall.srcWidth, lcall.destWidth, destX) < 2
           /\ Len(yIndices[destY + 1]) = 6
           /\ SumOf(RawWeights(lcall.srcWidth, lcall.destWidth, destX)) > 10100

\* a contributor index list is non-empty and stays inside an axis of the
\* given size
IndicesInBounds(indices, srcSize) ==
    /\ indices # << >>
    /\ \A i \in DOMAIN indices : indices[i] >= 0 /\ indices[i] <= srcSize - 1

\* C29 -- Lanczos reads stay in bounds: for every source size >= 1 and
\* destination size >= 1 the contributor index list of each axis is
\* non-empty with every index in [0, srcSize - 1], so no read falls outside
\* the source buffer and no empty weight list is normalized.
C29_ReadsInBounds ==
    /\ \A k \in DOMAIN xIndices :
          /\ IndicesInBounds(xIndices[k], lcall.srcWidth)
          /\ Len(xWeights[k]) = Len(xIndices[k])
          /\ \A i \in DOMAIN xWeights[k] : xWeights[k][i] # Infinity
    /\ \A k \in DOMAIN yIndices :
          /\ IndicesInBounds(yIndices[k], lcall.srcHeight)
          /\ Len(yWeights[k]) = Len(yIndices[k])
          /\ \A i \in DOMAIN yWeights[k] : yWeights[k][i] # Infinity
    /\ \A r \in reads :
          LET offset == (r[2] * lcall.srcWidth + r[1]) * 4
          IN  /\ offset >= 0
              /\ offset + 3 < lcall.srcWidth * lcall.srcHeight * 4
              /\ r[1] < lcall.srcWidth
    /\ destPx > 0 => reads # {}

\* C29 witness: the call has returned for a source one pixel wide, where
\* the window is clipped on both sides to the single column 0, and more
\* than one pixel high with a window clipped at the last row; the last
\* destination pixel read source pixels.
C29_Witness ==
    /\ lpc = "returned"
    /\ lcall.srcWidth = 1 /\ lcall.srcHeight > 3 /\ lcall.destHeight > 1
    /\ \E k \in DOMAIN yIndices :
          /\ yIndices[k][Len(yIndices[k])] = lcall.srcHeight - 1
          /\ FloorSrc(lcall.srcHeight, lcall.destHeight, k - 1) + 3
                > lcall.srcHeight - 1
    /\ reads # {}

\* C26 -- Zero strength removes the kernel: with strength 0 every pixel the
\* pass has visited holds findNearestColor of its own contrast-adjusted
\* input colour and every pixel not yet visited still holds its
\* contrast-adjusted input colour, whichever of the four kernels runs; the
\* buffer returned is therefore the same for the four kernels.
C26_ZeroStrength ==
    (dpc \in {"pass", "returned"} /\ strength[1] = 0) =>
        LET input == heap[imageData.data]
            adjusted == heap[processed]
            output == heap[work]
            palette == COLOR_PALETTES[paletteKey]
        IN  \A q \in 0..(imageData.width * imageData.height - 1) :
               /\ \A c \in 0..2 :
                     IF contrast[1] = contrast[2]
                     THEN adjusted[4 * q + c] = input[4 * q + c]
                     ELSE ContrastOf(adjusted[4 * q + c], input[4 * q + c],
                                     contrast[1], contrast[2])
               /\ RgbAt(output, q) =
                     IF q < px
                     THEN findNearestColor(adjusted[4 * q], adjusted[4 * q + 1],
                                           adjusted[4 * q + 2], palette,
                                           computePaletteLab(palette))
                     ELSE RgbAt(adjusted, q)
               /\ (dpc = "returned" /\ q < px) =>
                     RgbAt(heap[result.data], q) = RgbAt(output, q)

\* C26 witness: a kernel other than Floyd-Steinberg has returned at
\* strength 0 from a 3 x 3 image with a contrast pre-pass, and some pixel
\* was matched to a colour other than the one it had, so that there was an
\* error to diffuse.
C26_Witness ==
    /\ dpc = "returned" /\ strength[1] = 0
    /\ algorithm = "jarvis" /\ contrast = <<3, 2>>
    /\ imageData.width = MaxW /\ imageData.height = MaxH
    /\ \E q \in 0..(MaxW * MaxH - 2) :
          RgbAt(heap[result.data], q) # RgbAt(heap[processed], q)

\* each of the first `pixels` pixels of the buffer has the R, G, B of an
\* entry of the palette
PaletteOnly(data, pixels, palette) ==
    \A q \in 0..(pixels - 1) :
       \E i \in DOMAIN palette : RgbAt(data, q) = palette[i]

\* C27 -- Idempotence on palette-only images: with contrast 1.0 and every
\* input pixel equal to an entry of the selected palette, for every kernel
\* and strength the buffer of the pass equals the input after every pixel
\* visited, and the buffer applyDithering returns equals the input.
C27_PaletteIdempotence ==
    (/\ dpc \in {"pass", "returned"}
     /\ contrast = <<1, 1>>
     /\ PaletteOnly(heap[imageData.data], imageData.width * imageData.height,
                    COLOR_PALETTES[paletteKey]))
    => /\ heap[work] = heap[imageData.data]
       /\ dpc = "returned" => heap[result.data] = heap[imageData.data]

\* C27 witness: applyDithering has returned at contrast 1.0 and full
\* strength from a 3 x 3 image of the six-colour palette whose pixels are
\* palette entries, its pure blue among them.
C27_Witness ==
    /\ dpc = "returned" /\ contrast = <<1, 1>> /\ strength = <<1, 1>>
    /\ paletteKey = "spectra-6" /\ algorithm = "stucki"
    /\ imageData.width = MaxW /\ imageData.height = MaxH
    /\ PaletteOnly(heap[imageData.data], MaxW * MaxH, COLOR_PALETTES[paletteKey])
    /\ \E q \in 0..(MaxW * MaxH - 1) :
          RgbAt(heap[imageData.data], q) = <<0, 0, 255>>
    /\ \E q \in 0..(MaxW * MaxH - 1) :
          RgbAt(heap[imageData.data], q) = <<255, 255, 255>>

\* C28 -- Alpha untouched by dithering: neither the contrast pre-pass nor
\* the diffusion writes an alpha sample: the buffers of the pass and the
\* buffer returned have the input's alpha at every pixel, and no step
\* changes an alpha sample of any buffer.
C28_AlphaUntouched ==
    /\ [](dpc \in {"pass", "returned"} =>
            \A q \in 0..(imageData.width * imageData.height - 1) :
               /\ heap[processed][4 * q + 3] = heap[imageData.data][4 * q + 3]
               /\ heap[work][4 * q + 3] = heap[imageData.data][4 * q + 3]
               /\ dpc = "returned" =>
                     heap[result.data][4 * q + 3] = heap[imageData.data][4 * q + 3])
    /\ [][\A id \in DOMAIN heap : \A i \in DOMAIN heap[id] :
            i % 4 = 3 => heap'[id][i] = heap[id][i]]_vars

\* C28 witness: applyDithering has returned after a contrast pre-pass and a
\* diffusion at strength 1.5 over a 3 x 3 image whose alpha samples include
\* 100, a value the contrast transform would change, and 0, and the R, G, B
\* of the pixel of alpha 100 did change.
C28_Witness ==
    /\ dpc = "returned" /\ contrast = <<3, 2>> /\ strength = <<3, 2>>
    /\ imageData.width = MaxW /\ imageData.height = MaxH
    /\ ~ContrastOf(100, 100, 3, 2)
    /\ \E q \in 1..(MaxW * MaxH - 1) :
          /\ heap[imageData.data][4 * q + 3] = 100
          /\ RgbAt(heap[result.data], q) # RgbAt(heap[imageData.data], q)
    /\ \E q \in 0..(MaxW * MaxH - 1) : heap[imageData.data][4 * q + 3] = 0

\* C30 -- Picker polling under overlapping ticks: for every interleaving of
\* ticks the selected media items are fetched and the picker session is
\* deleted at most once per session, the polling interval is cleared
\* whenever the returned promise has settled, and no poll request is issued
\* after it has settled.
C30_PickerOnce ==
    /\ listCalls <= 1
    /\ deleteCalls <= 1
    /\ promise \in {"resolved", "rejected"} => interval = "cleared"
    /\ ~pollAfterSettled

=============================================================================
